---------------------------- MODULE Spec2Model ----------------------------
(***************************************************************************)
(* StreetType asset resolution: AssetManager (assetManager.js) with the    *)
(* helpers of utils.js it calls.                                           *)
(*                                                                         *)
(* Strings are TLA+ strings built with \o, so a path is the very text the  *)
(* code builds.  A character is a one-character string; the code unit      *)
(* U+D800 (a lone surrogate, which a JavaScript string can hold and        *)
(* Array.from yields as one element) cannot be written in a TLA+ string    *)
(* and is named by the token LoneSurrogate.                                *)
(*                                                                         *)
(* Atomicity.  JavaScript runs one turn at a time.  An action of this      *)
(* module is what runs between two points at which other code of the page  *)
(* can call get or clearCache: the synchronous part of a call, or the      *)
(* event of an existence probe together with the promise continuations     *)
(* (microtasks) it triggers.                                               *)
(*                                                                         *)
(* Specifications.  Spec: the page calls get and clearCache while probes   *)
(* report.  DeepSpec: Spec with one more call of get.  FairSpec: Spec in   *)
(* which probes report in the end.  PathSpec: _buildFallbackPaths applied  *)
(* to each request of AllRequests.  LetterPathSpec, CheckSpec, DbSpec,     *)
(* SelectorSpec, UtilSpec, TextSpec, TypographySpec, DebounceSpec and      *)
(* CanvasSpec: one layer of the page each (LetterDatabase.getLetterPath,   *)
(* checkFileExists, LetterDatabase, LetterSelector._buildLetterObj, the    *)
(* functions of utils.js, selectLettersForText, TypographyManager,         *)
(* debounce, updateCanvas), the other layers standing still.               *)
(***************************************************************************)
EXTENDS Integers, Sequences, FiniteSets, TLC

VARIABLES
    cache,            \* AssetManager.cache: cacheKey -> url
    loadingPromises,  \* AssetManager.loadingPromises: cacheKey -> id of the load
    stats,            \* AssetManager.stats
    loads,            \* the promises returned by _loadWithFallbacks, by id
    calls,            \* the calls of get made so far, in call order
    clears,           \* number of clearCache calls made so far
    pReq,             \* PathSpec: the request handed to _buildFallbackPaths
    pPaths,           \* PathSpec: the list it returned
    pPc,              \* PathSpec: "input" before the call, "resolved" after it
    gArgs,            \* LetterPathSpec: the arguments of getLetterPath and
                      \* this.decorativePathFormat
    gPath,            \* LetterPathSpec: what getLetterPath returned
    gFolder,          \* LetterPathSpec: what _mapSymbolToFolderName returned
    gPc,              \* LetterPathSpec: the calls made, a subset of
                      \* {"getLetterPath", "_mapSymbolToFolderName"}
    probes,           \* CheckSpec: the calls of checkFileExists, each with its
                      \* promise, its Image and its timer
    db,               \* DbSpec: the LetterDatabase object, the probes of its
                      \* pathExists and the calls running on it
    disk,             \* DbSpec: the paths of the files the server has
    builds,           \* SelectorSpec: the calls of LetterSelector._buildLetterObj
    util,             \* UtilSpec: the arguments and results of the functions
                      \* of utils.js
    sel,              \* TextSpec: the calls of LetterSelector.selectLettersForText
    tm,               \* TypographySpec: the TypographyManager object and the
                      \* calls running on it
    deb,              \* DebounceSpec: the closure debounce returned, the clock,
                      \* the calls of the debounced function and of fn
    page              \* CanvasSpec: the output container, the generate button,
                      \* the canvas and the runs of updateCanvas

amVars == <<cache, loadingPromises, stats, loads, calls, clears>>
pathVars == <<pReq, pPaths, pPc>>
letterPathVars == <<gArgs, gPath, gFolder, gPc>>

dbVars == <<db, disk>>

\* the variables of TextSpec, TypographySpec, DebounceSpec and CanvasSpec
pageVars == <<sel, tm, deb, page>>

\* the variables of the page's own layers
uiVars == <<builds, pageVars>>

utilVars == <<util>>

\* the variables of the machines other than AssetManager and PathSpec
otherVars == <<letterPathVars, probes, dbVars, uiVars, utilVars>>

vars == <<amVars, pathVars, otherVars>>

-----------------------------------------------------------------------------
(* Bounds of the model *)

MaxCalls == 2       \* calls of get in one behaviour of Spec
MaxClears == 1      \* calls of clearCache in one behaviour
MaxProbes == 2      \* calls of checkFileExists in one behaviour of CheckSpec
MaxVariantsCalls == 1  \* calls of getLetterVariants in one behaviour of DbSpec
MaxTimeouts == 1    \* probes of pathExists whose timer fires, in one behaviour
MaxBuilds == 1      \* calls of _buildLetterObj in one behaviour of SelectorSpec
FilterIdRange == 2  \* values Math.random()*10000 is drawn from, 0..FilterIdRange-1

(* Program constants *)

NumVariants == 5    \* for (let i = 1; i <= 5; i++)
PadWidth == 2       \* padStart(2, '0')

-----------------------------------------------------------------------------
(* Characters *)

LoneSurrogate == "<U+D800>"

\* a low surrogate code unit, and the code point U+10000 that the code units
\* U+D800 U+DC00 encode together
LowSurrogate == "<U+DC00>"
Astral == "<U+10000>"

UpperLetters == {"A", "Z"}
LowerLetters == {"a", "z"}
Digits == {"0", "5"}

\* /^[a-zA-Z]$/.test(char)
IsLetter(char) == char \in UpperLetters \cup LowerLetters

\* /^[0-9]$/.test(char)
IsDigit(char) == char \in Digits

\* as toUpperCase, but the character is kept as it was typed
toUpperCase_Identity(char) == char

\* String.prototype.toUpperCase on a one-character string of the alphabet
toUpperCase(char) ==
    CASE char = "a" -> "A"
      [] char = "z" -> "Z"
      [] OTHER -> char

\* String.prototype.padStart(PadWidth, '0')
RECURSIVE padStart(_)
padStart(s) == IF Len(s) >= PadWidth THEN s ELSE padStart("0" \o s)


-----------------------------------------------------------------------------
(* AssetManager._mapSymbolToFolderName *)

symbolMap ==
    [c \in {"!", "?", ".", ",", ":", ";", "\"", "'", "(", ")", "[", "]", "{", "}",
            "<", ">", "+", "-", "*", "/", "\\", "|", "=", "@", "#", "$", "%", "^",
            "&", "_"} |->
        CASE c = "!" -> "exclamation"
          [] c = "?" -> "question"
          [] c = "." -> "period"
          [] c = "," -> "comma"
          [] c = ":" -> "colon"
          [] c = ";" -> "semicolon"
          [] c = "\"" -> "quote"
          [] c = "'" -> "apostrophe"
          [] c = "(" -> "parenthesis-open"
          [] c = ")" -> "parenthesis-close"
          [] c = "[" -> "bracket-open"
          [] c = "]" -> "bracket-close"
          [] c = "{" -> "brace-open"
          [] c = "}" -> "brace-close"
          [] c = "<" -> "angle-open"
          [] c = ">" -> "angle-close"
          [] c = "+" -> "plus"
          [] c = "-" -> "minus"
          [] c = "*" -> "asterisk"
          [] c = "/" -> "slash"
          [] c = "\\" -> "backslash"
          [] c = "|" -> "vertical-bar"
          [] c = "=" -> "equals"
          [] c = "@" -> "at"
          [] c = "#" -> "hash"
          [] c = "$" -> "dollar"
          [] c = "%" -> "percent"
          [] c = "^" -> "caret"
          [] c = "&" -> "ampersand"
          [] c = "_" -> "underscore"]

\* symbolMap[symbol] || 'symbol'
_mapSymbolToFolderName(symbol) ==
    IF symbol \in DOMAIN symbolMap THEN symbolMap[symbol] ELSE "symbol"

\* Characters that are neither letters, digits nor keys of symbolMap
UnmappedSymbols == {"~", LoneSurrogate}

Chars == UpperLetters \cup LowerLetters \cup Digits \cup DOMAIN symbolMap
             \cup UnmappedSymbols

-----------------------------------------------------------------------------
(* Requests: the argument object of AssetManager.get *)

\* style: the values of fontStyles; case: upper or lower; city: any string
\* code, of which config.js lists NYC
Styles == {"sans", "serif", "mono", "script", "decorative"}
Cases == {"upper", "lower"}
Cities == {"NYC", "LA"}

\* i.toString().padStart(2, '0') for i = 1..5: the variants the callers pass
VariantNames == {padStart(ToString(i)) : i \in 1..NumVariants}

\* the same variants as the callers may also write them, unpadded
Variants == VariantNames \cup {ToString(i) : i \in 1..NumVariants}

Request(char, style, charCase, city, variant) ==
    [char |-> char, style |-> style, charCase |-> charCase, city |-> city,
     variant |-> variant]

AllRequests ==
    {Request(ch, st, cs, ci, v) :
        ch \in Chars, st \in Styles, cs \in Cases, ci \in Cities, v \in Variants}

-----------------------------------------------------------------------------
(* AssetManager._buildFallbackPaths *)

MissingPath == "assets/missing.png"

\* as AltVariants, but the requested variant is not skipped
AltVariants_NoSkip(paddedVariant) ==
    [i \in 1..NumVariants |-> padStart(ToString(i))]

\* the loop "for i = 1..5: if padded(i) !== paddedVariant then push": the
\* variants other than the requested one, ascending
AltVariants(paddedVariant) ==
    SelectSeq([i \in 1..NumVariants |-> padStart(ToString(i))],
              LAMBDA v : v # paddedVariant)

LetterPath(city, letter, styleCase, nn) ==
    "assets/Alphabet/cities/" \o city \o "/Alphabet/" \o letter \o "/"
        \o styleCase \o "/" \o nn \o ".jpg"

CityFallbackPath(city, styleCase, nn) ==
    "assets/Alphabet/cities/" \o city \o "/fallback/" \o styleCase \o "/"
        \o nn \o ".jpg"

NumberPath(char, nn) == "assets/Numbers/" \o char \o "/" \o nn \o ".jpg"

SymbolPath(symbolName, nn) == "assets/Symbols/" \o symbolName \o "/" \o nn \o ".jpg"

\* as TypedPaths, but the digits are kept in one folder per style
TypedPaths_StyledNumbers(r) ==
    LET paddedVariant == padStart(r.variant)
        alts == AltVariants(paddedVariant)
    IN  IF IsLetter(r.char) THEN
            LET letter == toUpperCase(r.char)
                styleCase == r.style \o "-" \o r.charCase
            IN  <<LetterPath(r.city, letter, styleCase, paddedVariant),
                  CityFallbackPath(r.city, styleCase, paddedVariant)>>
                \o [i \in 1..Len(alts) |->
                        LetterPath(r.city, letter, styleCase, alts[i])]
        ELSE IF IsDigit(r.char) THEN
            <<NumberPath(r.style \o "/" \o r.char, paddedVariant)>>
                \o [i \in 1..Len(alts) |->
                        NumberPath(r.style \o "/" \o r.char, alts[i])]
        ELSE
            LET symbolName == _mapSymbolToFolderName(r.char)
            IN  <<SymbolPath(symbolName, paddedVariant)>>
                \o [i \in 1..Len(alts) |-> SymbolPath(symbolName, alts[i])]

\* the branch on the asset type: the paths pushed before the global fallback
TypedPaths(r) ==
    LET paddedVariant == padStart(r.variant)
        alts == AltVariants(paddedVariant)
    IN  IF IsLetter(r.char) THEN
            LET letter == toUpperCase(r.char)
                styleCase == r.style \o "-" \o r.charCase
            IN  <<LetterPath(r.city, letter, styleCase, paddedVariant),
                  CityFallbackPath(r.city, styleCase, paddedVariant)>>
                \o [i \in 1..Len(alts) |->
                        LetterPath(r.city, letter, styleCase, alts[i])]
        ELSE IF IsDigit(r.char) THEN
            <<NumberPath(r.char, paddedVariant)>>
                \o [i \in 1..Len(alts) |-> NumberPath(r.char, alts[i])]
        ELSE
            LET symbolName == _mapSymbolToFolderName(r.char)
            IN  <<SymbolPath(symbolName, paddedVariant)>>
                \o [i \in 1..Len(alts) |-> SymbolPath(symbolName, alts[i])]

\* as _buildFallbackPaths, but without the global fallback
_buildFallbackPaths_NoGlobal(r) == TypedPaths(r)

\* as _buildFallbackPaths, but a character that is no letter, no digit and
\* not in the symbol table gets no candidates
_buildFallbackPaths_NoneForOthers(r) ==
    IF IsLetter(r.char) \/ IsDigit(r.char) \/ r.char \in DOMAIN symbolMap
    THEN TypedPaths(r) \o <<MissingPath>>
    ELSE <<>>

_buildFallbackPaths(r) == TypedPaths(r) \o <<MissingPath>>

-----------------------------------------------------------------------------
(* utils.js: getSystemFontFallbacks, generateFallbackLetterSVG              *)
(*                                                                         *)
(* A style string is kept as the sequence of its '-'-separated parts, so   *)
(* style.split('-') is the sequence itself: `sans-upper` is                *)
(* <<"sans", "upper">>.  The empty string is <<"">>, and the empty         *)
(* sequence stands for undefined.                                          *)

undefined == <<>>

\* the style as one string
RECURSIVE styleText(_)
styleText(styleParts) ==
    IF styleParts = undefined THEN "undefined"
    ELSE IF Len(styleParts) = 1 THEN styleParts[1]
    ELSE styleParts[1] \o "-" \o styleText(Tail(styleParts))

\* style?.split('-')[0] || style: the part before the first '-', or the
\* whole style when that part is empty (falsy) or the style is undefined
baseStyleOf(styleParts) ==
    IF styleParts = undefined THEN "undefined"
    ELSE IF styleParts[1] # "" THEN styleParts[1]
    ELSE styleText(styleParts)

\* as getSystemFontFallbacks, but switching on the whole style
getSystemFontFallbacks_WholeStyle(styleParts) ==
    LET baseStyle == styleText(styleParts)
    IN  CASE baseStyle = "sans" -> "Arial, Helvetica, sans-serif"
          [] baseStyle = "serif" -> "Georgia, \"Times New Roman\", serif"
          [] baseStyle = "mono" -> "\"Courier New\", Courier, monospace"
          [] baseStyle = "script" -> "\"Comic Sans MS\", cursive, sans-serif"
          [] baseStyle = "decorative" -> "\"Impact\", fantasy"
          [] OTHER -> "sans-serif"

getSystemFontFallbacks(styleParts) ==
    LET baseStyle == baseStyleOf(styleParts)
    IN  CASE baseStyle = "sans" -> "Arial, Helvetica, sans-serif"
          [] baseStyle = "serif" -> "Georgia, \"Times New Roman\", serif"
          [] baseStyle = "mono" -> "\"Courier New\", Courier, monospace"
          [] baseStyle = "script" -> "\"Comic Sans MS\", cursive, sans-serif"
          [] baseStyle = "decorative" -> "\"Impact\", fantasy"
          [] OTHER -> "sans-serif"

styleColorMap ==
    [st \in Styles |->
        CASE st = "sans" ->
                [fill |-> "#3a7ca5", background |-> "#f0f8ff", stroke |-> "#2a5a7a"]
          [] st = "serif" ->
                [fill |-> "#d63030", background |-> "#fff0f0", stroke |-> "#a02020"]
          [] st = "mono" ->
                [fill |-> "#2d882d", background |-> "#f0fff0", stroke |-> "#1d681d"]
          [] st = "script" ->
                [fill |-> "#aa7c39", background |-> "#fff8e6", stroke |-> "#8a5c19"]
          [] st = "decorative" ->
                [fill |-> "#9933cc", background |-> "#f8f0ff", stroke |-> "#7922aa"]]

\* property names every object literal inherits from Object.prototype: for
\* these styleColorMap[baseStyle] is a function, which is truthy and has no
\* fill, background or stroke
InheritedNames == {"constructor", "toString", "valueOf", "hasOwnProperty"}

\* /^[!@#$%^&*()_+\-=\[\]{}|;':",./<>?]$/.test(char)
IsPaletteSymbol(char) == char \in (DOMAIN symbolMap \ {"\\"})

\* the characters encodeURIComponent leaves as they are
UriUnreserved ==
    UpperLetters \cup LowerLetters \cup Digits
        \cup {"-", "_", ".", "!", "~", "*", "'", "(", ")"}

\* encodeURIComponent on a one-character string: the character itself, its
\* %XX escape, or a URIError ("URI malformed") for a lone surrogate
encodeURIComponent(char) ==
    IF char \in {LoneSurrogate, LowSurrogate} THEN [ok |-> FALSE, text |-> "URIError"]
    ELSE IF char \in UriUnreserved THEN [ok |-> TRUE, text |-> char]
    ELSE [ok |-> TRUE,
          text |-> CASE char = "?" -> "%3F"
                     [] char = "," -> "%2C"
                     [] char = ":" -> "%3A"
                     [] char = ";" -> "%3B"
                     [] char = "\"" -> "%22"
                     [] char = "[" -> "%5B"
                     [] char = "]" -> "%5D"
                     [] char = "{" -> "%7B"
                     [] char = "}" -> "%7D"
                     [] char = "<" -> "%3C"
                     [] char = ">" -> "%3E"
                     [] char = "+" -> "%2B"
                     [] char = "/" -> "%2F"
                     [] char = "\\" -> "%5C"
                     [] char = "|" -> "%7C"
                     [] char = "=" -> "%3D"
                     [] char = "@" -> "%40"
                     [] char = "#" -> "%23"
                     [] char = "$" -> "%24"
                     [] char = "%" -> "%25"
                     [] char = "^" -> "%5E"
                     [] char = "&" -> "%26"
                     [] char = Astral -> "%F0%90%80%80"]

\* Values a promise of get or _loadWithFallbacks can hold
NoValue == [tag |-> "none"]
PathUrl(path) == [tag |-> "path", path |-> path]
Thrown(name) == [tag |-> "error", name |-> name]

SvgPrefix == "data:image/svg+xml;charset=utf-8,"

\* as generateFallbackLetterSVG, but without the special colours of digits
\* and symbols
generateFallbackLetterSVG_StyleOnly(char, styleParts, rnd) ==
    LET font == getSystemFontFallbacks(styleParts)
        baseStyle == baseStyleOf(styleParts)
        colors == IF baseStyle \in DOMAIN styleColorMap
                  THEN styleColorMap[baseStyle]
                  ELSE [fill |-> "#333", background |-> "#f0f0f0", stroke |-> "#ccc"]
        enc == encodeURIComponent(char)
    IN  IF enc.ok
        THEN [tag |-> "data", prefix |-> SvgPrefix, font |-> font,
              fill |-> colors.fill, background |-> colors.background,
              stroke |-> colors.stroke,
              filterId |-> "shadow_" \o enc.text \o "_" \o ToString(rnd),
              text |-> enc.text]
        ELSE Thrown(enc.text)

\* generateFallbackLetterSVG(char, style), with rnd the value of
\* Math.floor(Math.random() * 10000).  The result is the data URL, kept as
\* its prefix and the parts of the encoded SVG text that vary, or the
\* exception encodeURIComponent throws.
generateFallbackLetterSVG(char, styleParts, rnd) ==
    LET font == getSystemFontFallbacks(styleParts)
        baseStyle == baseStyleOf(styleParts)
        base == IF baseStyle \in DOMAIN styleColorMap
                THEN styleColorMap[baseStyle]
                ELSE IF baseStyle \in InheritedNames
                THEN [fill |-> "undefined", background |-> "undefined",
                      stroke |-> "undefined"]
                ELSE [fill |-> "#333", background |-> "#f0f0f0", stroke |-> "#ccc"]
        colors == IF IsDigit(char)
                  THEN [fill |-> "#6a5acd", background |-> "#f5f0ff",
                        stroke |-> "#483d8b"]
                  ELSE IF IsPaletteSymbol(char)
                  THEN [fill |-> "#ff8c00", background |-> "#fff8f0",
                        stroke |-> "#cc7000"]
                  ELSE base
        enc == encodeURIComponent(char)
    IN  IF enc.ok
        THEN [tag |-> "data", prefix |-> SvgPrefix, font |-> font,
              fill |-> colors.fill, background |-> colors.background,
              stroke |-> colors.stroke,
              filterId |-> "shadow_" \o enc.text \o "_" \o ToString(rnd),
              text |-> enc.text]
        ELSE Thrown(enc.text)

\* url.startsWith('data:image/svg+xml')
IsSvgDataUrl(url) == url.tag = "data" /\ url.prefix = SvgPrefix

\* checkFileExists(path, timeout): the promise resolves with the first of the
\* image's load event (true), its error event (false), the timer (false)
ProbeEvents == {"load", "error", "timeout"}
checkFileExists(ev) == ev = "load"

-----------------------------------------------------------------------------
(* AssetManager: state *)

\* const cacheKey = `${char}_${style}_${charCase}_${city}_${variant}`
cacheKey(r) ==
    r.char \o "_" \o r.style \o "_" \o r.charCase \o "_" \o r.city \o "_" \o r.variant

\* The requests the callers of this model make: a letter, and a symbol whose
\* character is a lone surrogate
Reqs ==
    {Request("A", "sans", "upper", "NYC", "01"),
     Request(LoneSurrogate, "sans", "upper", "NYC", "01")}

Keys == {cacheKey(r) : r \in Reqs}

\* a load: one run of _loadWithFallbacks and the promise it returned.
\*   started  number of probes started; the last one is in flight while
\*            Len(results) < started
\*   results  what checkFileExists resolved to, probe by probe
Load(r) ==
    [req |-> r, key |-> cacheKey(r), paths |-> _buildFallbackPaths(r),
     started |-> 1, results |-> <<>>, state |-> "pending", value |-> NoValue]

\* a call of get and the promise it returned.  epoch and inFlightBefore record
\* the moment of the call: the clearCache calls made before it, and the earlier
\* calls for the same key that were not answered yet
Call(r, kind, load, state, value) ==
    [req |-> r, key |-> cacheKey(r), kind |-> kind, load |-> load,
     state |-> state, value |-> value, epoch |-> clears,
     inFlightBefore |->
        {i \in 1..Len(calls) :
            calls[i].key = cacheKey(r) /\ calls[i].state = "waiting"}]

has(map, key) == map[key] # NoValue

\* AssetManager.getStats
getStats ==
    [requested |-> stats.requested, loaded |-> stats.loaded,
     failed |-> stats.failed, cached |-> stats.cached,
     fallbacks |-> stats.fallbacks,
     cacheSize |-> Cardinality({k \in Keys : has(cache, k)}),
     pendingLoads |-> Cardinality({k \in Keys : loadingPromises[k] # 0})]

\* the value of the variables of a machine in the specifications that do not
\* run it
LetterPathIdle ==
    /\ gArgs = [character |-> "A", styleKey |-> "sans", location |-> "NYC",
                variantIndex |-> 1, decorativePathFormat |-> <<>>]
    /\ gPath = ""
    /\ gFolder = ""
    /\ gPc = {"off"}

CheckIdle == probes = <<>>

DbIdle ==
    /\ db = [pathExistsCache |-> <<>>, checked |-> FALSE, assetsDetected |-> FALSE,
             decorativePathFormat |-> <<>>, tasks |-> <<>>, successes |-> <<>>]
    /\ disk = {}

\* the TypographyManager after its constructor
NewTypographyManager == [initialized |-> FALSE, prewarms |-> <<>>, calls |-> <<>>]

\* innerHTML = ''
NoContent == [type |-> "none", text |-> ""]

\* the page after the DOMContentLoaded handler: the output container, the
\* generate button, the export and share buttons (disabled at first), the
\* letters on the canvas, and the runs of updateCanvas
NewPage ==
    [outputContainer |-> NoContent, generateBtn |-> "enabled", exportBtn |-> "disabled",
     letters |-> <<>>, runs |-> <<>>]

\* in the specifications that do not run them: no call of
\* selectLettersForText, no TypographyManager, no debounced function, no page
PageIdle ==
    /\ sel = <<>>
    /\ tm = <<>>
    /\ deb = <<>>
    /\ page = <<>>

UiIdle == builds = <<>> /\ PageIdle

UtilIdle ==
    util = [char |-> "A", style |-> <<"sans">>, font |-> "", url |-> NoValue,
            pc |-> {"off"}]

OthersIdle == LetterPathIdle /\ CheckIdle /\ DbIdle /\ UiIdle /\ UtilIdle

Init ==
    /\ cache = [k \in Keys |-> NoValue]
    /\ loadingPromises = [k \in Keys |-> 0]
    /\ stats = [requested |-> 0, loaded |-> 0, failed |-> 0, cached |-> 0,
                fallbacks |-> 0]
    /\ loads = <<>>
    /\ calls = <<>>
    /\ clears = 0
    /\ pReq = Request("A", "sans", "upper", "NYC", "01")
    /\ pPaths = <<>>
    /\ pPc = "off"
    /\ OthersIdle

-----------------------------------------------------------------------------
(* AssetManager: operations *)

\* as _loadWithFallbacks, but a success does not end the loop
_loadWithFallbacks_ProbeOn(L, st, exists, rnd) ==
    LET results == Append(L.results, exists)
    IN  IF L.started < Len(L.paths) THEN
            [load |-> [L EXCEPT !.results = results, !.started = @ + 1],
             stats |-> st]
        ELSE IF exists THEN
            [load |-> [L EXCEPT !.results = results, !.state = "fulfilled",
                                !.value = PathUrl(L.paths[L.started])],
             stats |-> [st EXCEPT !.loaded = @ + 1]]
        ELSE
            LET url == generateFallbackLetterSVG(
                           L.req.char, <<L.req.style, L.req.charCase>>, rnd)
            IN  [load |-> [L EXCEPT !.results = results,
                                    !.state = IF url.tag = "error" THEN "rejected"
                                              ELSE "fulfilled",
                                    !.value = url],
                 stats |-> [st EXCEPT !.fallbacks = @ + 1]]

\* as _loadWithFallbacks, but a success returns the primary path
_loadWithFallbacks_Primary(L, st, exists, rnd) ==
    LET results == Append(L.results, exists)
    IN  IF exists THEN
            [load |-> [L EXCEPT !.results = results, !.state = "fulfilled",
                                !.value = PathUrl(L.paths[1])],
             stats |-> [st EXCEPT !.loaded = @ + 1]]
        ELSE IF L.started < Len(L.paths) THEN
            [load |-> [L EXCEPT !.results = results, !.started = @ + 1],
             stats |-> st]
        ELSE
            LET url == generateFallbackLetterSVG(
                           L.req.char, <<L.req.style, L.req.charCase>>, rnd)
            IN  [load |-> [L EXCEPT !.results = results,
                                    !.state = IF url.tag = "error" THEN "rejected"
                                              ELSE "fulfilled",
                                    !.value = url],
                 stats |-> [st EXCEPT !.fallbacks = @ + 1]]

\* as _loadWithFallbacks, but after the last candidate has failed the loop
\* starts over with the first one
_loadWithFallbacks_StartOver(L, st, exists, rnd) ==
    LET results == Append(L.results, exists)
    IN  IF exists THEN
            [load |-> [L EXCEPT !.results = results, !.state = "fulfilled",
                                !.value = PathUrl(L.paths[L.started])],
             stats |-> [st EXCEPT !.loaded = @ + 1]]
        ELSE IF L.started < Len(L.paths) THEN
            [load |-> [L EXCEPT !.results = results, !.started = @ + 1],
             stats |-> st]
        ELSE
            [load |-> [L EXCEPT !.results = <<>>, !.started = 1],
             stats |-> st]

\* as _loadWithFallbacks, but a resolution that ends in the synthesized
\* fallback is taken back out of stats.requested
_loadWithFallbacks_Uncount(L, st, exists, rnd) ==
    LET results == Append(L.results, exists)
    IN  IF exists THEN
            [load |-> [L EXCEPT !.results = results, !.state = "fulfilled",
                                !.value = PathUrl(L.paths[L.started])],
             stats |-> [st EXCEPT !.loaded = @ + 1]]
        ELSE IF L.started < Len(L.paths) THEN
            [load |-> [L EXCEPT !.results = results, !.started = @ + 1],
             stats |-> st]
        ELSE
            LET url == generateFallbackLetterSVG(
                           L.req.char, <<L.req.style, L.req.charCase>>, rnd)
            IN  [load |-> [L EXCEPT !.results = results,
                                    !.state = IF url.tag = "error" THEN "rejected"
                                              ELSE "fulfilled",
                                    !.value = url],
                 stats |-> [st EXCEPT !.fallbacks = @ + 1, !.requested = @ - 1]]

\* as _loadWithFallbacks, but the synthesized fallback is counted as loaded too
_loadWithFallbacks_CountBoth(L, st, exists, rnd) ==
    LET results == Append(L.results, exists)
    IN  IF exists THEN
            [load |-> [L EXCEPT !.results = results, !.state = "fulfilled",
                                !.value = PathUrl(L.paths[L.started])],
             stats |-> [st EXCEPT !.loaded = @ + 1]]
        ELSE IF L.started < Len(L.paths) THEN
            [load |-> [L EXCEPT !.results = results, !.started = @ + 1],
             stats |-> st]
        ELSE
            LET url == generateFallbackLetterSVG(
                           L.req.char, <<L.req.style, L.req.charCase>>, rnd)
            IN  [load |-> [L EXCEPT !.results = results,
                                    !.state = IF url.tag = "error" THEN "rejected"
                                              ELSE "fulfilled",
                                    !.value = url],
                 stats |-> [st EXCEPT !.fallbacks = @ + 1, !.loaded = @ + 1]]

\* as _loadWithFallbacks, but a probe that fails is counted in stats.failed
_loadWithFallbacks_CountFailed(L, st, exists, rnd) ==
    LET results == Append(L.results, exists)
    IN  IF exists THEN
            [load |-> [L EXCEPT !.results = results, !.state = "fulfilled",
                                !.value = PathUrl(L.paths[L.started])],
             stats |-> [st EXCEPT !.loaded = @ + 1]]
        ELSE IF L.started < Len(L.paths) THEN
            [load |-> [L EXCEPT !.results = results, !.started = @ + 1],
             stats |-> [st EXCEPT !.failed = @ + 1]]
        ELSE
            LET url == generateFallbackLetterSVG(
                           L.req.char, <<L.req.style, L.req.charCase>>, rnd)
            IN  [load |-> [L EXCEPT !.results = results,
                                    !.state = IF url.tag = "error" THEN "rejected"
                                              ELSE "fulfilled",
                                    !.value = url],
                 stats |-> [st EXCEPT !.fallbacks = @ + 1, !.failed = @ + 1]]

\* _loadWithFallbacks from the point where the probe of load L has resolved
\* to `exists`: the rest of the loop body, the next iteration up to its await,
\* or the code after the loop.  st is this.stats.
_loadWithFallbacks(L, st, exists, rnd) ==
    LET results == Append(L.results, exists)
    IN  IF exists THEN
            [load |-> [L EXCEPT !.results = results, !.state = "fulfilled",
                                !.value = PathUrl(L.paths[L.started])],
             stats |-> [st EXCEPT !.loaded = @ + 1]]
        ELSE IF L.started < Len(L.paths) THEN
            [load |-> [L EXCEPT !.results = results, !.started = @ + 1],
             stats |-> st]
        ELSE
            LET url == generateFallbackLetterSVG(
                           L.req.char, <<L.req.style, L.req.charCase>>, rnd)
            IN  [load |-> [L EXCEPT !.results = results,
                                    !.state = IF url.tag = "error" THEN "rejected"
                                              ELSE "fulfilled",
                                    !.value = url],
                 stats |-> [st EXCEPT !.fallbacks = @ + 1]]

\* as getAfterAwait, but the try branch leaves the in-flight marker
getAfterAwait_KeepMarker(L) ==
    [cache |-> IF L.state = "fulfilled" THEN [cache EXCEPT ![L.key] = L.value]
               ELSE cache,
     loadingPromises |-> IF L.state = "fulfilled" THEN loadingPromises
                         ELSE [loadingPromises EXCEPT ![L.key] = 0]]

\* get after `await loadPromise`, for the call that started load L: the try
\* branch (cache.set, loadingPromises.delete) or the catch branch (delete)
getAfterAwait(L) ==
    [cache |-> IF L.state = "fulfilled" THEN [cache EXCEPT ![L.key] = L.value]
               ELSE cache,
     loadingPromises |-> [loadingPromises EXCEPT ![L.key] = 0]]

\* as get, but stats.requested++ comes after the check of loadingPromises
get_CountAfterJoin(r) ==
    /\ LET key == cacheKey(r)
       IN  IF has(cache, key) THEN
               /\ stats' = [stats EXCEPT !.requested = @ + 1, !.cached = @ + 1]
               /\ calls' = Append(calls, Call(r, "hit", 0, "fulfilled", cache[key]))
               /\ UNCHANGED <<cache, loadingPromises, loads>>
           ELSE IF loadingPromises[key] # 0 THEN
               LET id == loadingPromises[key]
               IN  /\ calls' = Append(calls, Call(r, "join", id, "waiting", NoValue))
                   /\ UNCHANGED <<cache, loadingPromises, loads, stats>>
           ELSE
               LET id == Len(loads) + 1
               IN  /\ stats' = [stats EXCEPT !.requested = @ + 1]
                   /\ loads' = Append(loads, Load(r))
                   /\ loadingPromises' = [loadingPromises EXCEPT ![key] = id]
                   /\ calls' = Append(calls, Call(r, "start", id, "waiting", NoValue))
                   /\ UNCHANGED cache
    /\ UNCHANGED <<clears, pReq, pPaths, pPc, otherVars>>

\* get(r), up to its return or its await
get(r) ==
    /\ LET key == cacheKey(r)
       IN  IF has(cache, key) THEN
               /\ stats' = [stats EXCEPT !.requested = @ + 1, !.cached = @ + 1]
               /\ calls' = Append(calls, Call(r, "hit", 0, "fulfilled", cache[key]))
               /\ UNCHANGED <<cache, loadingPromises, loads>>
           ELSE IF loadingPromises[key] # 0 THEN
               LET id == loadingPromises[key]
               IN  /\ stats' = [stats EXCEPT !.requested = @ + 1]
                   /\ calls' = Append(calls, Call(r, "join", id, "waiting", NoValue))
                   /\ UNCHANGED <<cache, loadingPromises, loads>>
           ELSE
               LET id == Len(loads) + 1
               IN  /\ stats' = [stats EXCEPT !.requested = @ + 1]
                   /\ loads' = Append(loads, Load(r))
                   /\ loadingPromises' = [loadingPromises EXCEPT ![key] = id]
                   /\ calls' = Append(calls, Call(r, "start", id, "waiting", NoValue))
                   /\ UNCHANGED cache
    /\ UNCHANGED <<clears, pReq, pPaths, pPc, otherVars>>

\* The probe in flight of load id reports ev.  checkFileExists resolves, and
\* the continuations run as microtasks of the same turn: _loadWithFallbacks,
\* and when that settles its promise, get's code after the await and the
\* promises of the calls waiting on the load.  The await of the call that
\* started the load is the first reaction registered on the load's promise,
\* so cache.set and loadingPromises.delete run before the code of any caller.
ProbeEvent(id, ev, rnd) ==
    /\ id \in 1..Len(loads)
    /\ loads[id].state = "pending"
    /\ Len(loads[id].results) < loads[id].started
    /\ LET r == _loadWithFallbacks(loads[id], stats, checkFileExists(ev), rnd)
           L == r.load
           after == getAfterAwait(L)
       IN  /\ loads' = [loads EXCEPT ![id] = L]
           /\ stats' = r.stats
           /\ IF L.state = "pending" THEN
                  UNCHANGED <<cache, loadingPromises, calls>>
              ELSE
                  /\ cache' = after.cache
                  /\ loadingPromises' = after.loadingPromises
                  /\ calls' = [i \in 1..Len(calls) |->
                                 IF calls[i].load = id /\ calls[i].state = "waiting"
                                 THEN [calls[i] EXCEPT !.state = L.state,
                                                       !.value = L.value]
                                 ELSE calls[i]]
    /\ UNCHANGED <<clears, pReq, pPaths, pPc, otherVars>>

\* Math.random() is called only by generateFallbackLetterSVG, that is when the
\* probe in flight is that of the last candidate
RandomDraws(L) ==
    IF L.started = Len(L.paths) THEN 0..(FilterIdRange - 1) ELSE {0}

\* as clearCache, but only the memo table is cleared
clearCache_MemoOnly ==
    /\ cache' = [k \in Keys |-> NoValue]
    /\ clears' = clears + 1
    /\ UNCHANGED <<loadingPromises, stats, loads, calls, pReq, pPaths, pPc,
                   otherVars>>

\* AssetManager.clearCache
clearCache ==
    /\ cache' = [k \in Keys |-> NoValue]
    /\ loadingPromises' = [k \in Keys |-> 0]
    /\ clears' = clears + 1
    /\ UNCHANGED <<stats, loads, calls, pReq, pPaths, pPc, otherVars>>

\* The page calls get and clearCache at any time, here at most maxCalls and
\* MaxClears times
SomeGet(maxCalls) == Len(calls) < maxCalls /\ \E r \in Reqs : get(r)

SomeProbeEvent ==
    \E id \in 1..Len(loads), ev \in ProbeEvents :
        \E rnd \in RandomDraws(loads[id]) : ProbeEvent(id, ev, rnd)

SomeClear == clears < MaxClears /\ clearCache

Next ==
    \/ SomeGet(MaxCalls)
    \/ SomeProbeEvent
    \/ SomeClear

Spec == Init /\ [][Next]_vars

\* The same machine with one more call of get in a behaviour
DeepNext ==
    \/ SomeGet(MaxCalls + 1)
    \/ SomeProbeEvent
    \/ SomeClear

DeepSpec == Init /\ [][DeepNext]_vars

\* Every probe reports in the end: checkFileExists arms a timer that
\* resolves the promise when neither load nor error came first.  Fairness is
\* asked of the probes together, which is less than the timer of each gives.
FairSpec == Spec /\ WF_vars(SomeProbeEvent)

-----------------------------------------------------------------------------
(* _buildFallbackPaths as a function of its argument *)

PathInit ==
    /\ cache = [k \in Keys |-> NoValue]
    /\ loadingPromises = [k \in Keys |-> 0]
    /\ stats = [requested |-> 0, loaded |-> 0, failed |-> 0, cached |-> 0,
                fallbacks |-> 0]
    /\ loads = <<>>
    /\ calls = <<>>
    /\ clears = 0
    /\ pReq \in AllRequests
    /\ pPaths = <<>>
    /\ pPc = "input"
    /\ OthersIdle

Resolve ==
    /\ pPc = "input"
    /\ pPaths' = _buildFallbackPaths(pReq)
    /\ pPc' = "resolved"
    /\ UNCHANGED <<cache, loadingPromises, stats, loads, calls, clears, pReq,
                   otherVars>>

PathNext == Resolve

PathSpec == PathInit /\ [][PathNext]_vars

-----------------------------------------------------------------------------
(* LetterDatabase (database.js): getLetterPath                             *)
(*                                                                         *)
(* getLetterPath takes a path apart and puts one together, so a path of    *)
(* LetterDatabase is kept as the sequence of its tokens, the separators    *)
(* '/' and '-' included: Text(tokens) is the string.                       *)

RECURSIVE Text(_)
Text(tokens) ==
    IF tokens = <<>> THEN "" ELSE Head(tokens) \o Text(Tail(tokens))

\* Array.prototype.join('/'), each element a token sequence
RECURSIVE join(_)
join(parts) ==
    IF parts = <<>> THEN <<>>
    ELSE IF Len(parts) = 1 THEN parts[1]
    ELSE parts[1] \o <<"/">> \o join(Tail(parts))

\* String.prototype.split('/')
RECURSIVE split(_)
split(tokens) ==
    IF \A i \in 1..Len(tokens) : tokens[i] # "/" THEN <<tokens>>
    ELSE LET k == CHOOSE i \in 1..Len(tokens) :
                      tokens[i] = "/" /\ \A j \in 1..(i - 1) : tokens[j] # "/"
         IN  <<SubSeq(tokens, 1, k - 1)>> \o split(SubSeq(tokens, k + 1, Len(tokens)))

\* String.prototype.replace(/(upper|lower)/, caseType): the first match only
RECURSIVE replaceCase(_, _)
replaceCase(tokens, caseType) ==
    IF tokens = <<>> THEN <<>>
    ELSE IF Head(tokens) \in {"upper", "lower"} THEN <<caseType>> \o Tail(tokens)
    ELSE <<Head(tokens)>> \o replaceCase(Tail(tokens), caseType)

\* null, as the value of a path: the string of PathText(<<>>)
Null == "<null>"

\* the string of a path kept as tokens, <<>> being null
PathText(tokens) == IF tokens = <<>> THEN Null ELSE Text(tokens)

\* the style keys getLetterPath is called with: the values of the style
\* selector, 'display', 'random', and one it does not know
StyleKeys == {"sans", "serif", "decorative", "display", "random", "mono"}

\* const decorativePathVariations = [...] of _checkForAssets
decorativePathVariations ==
    <<  <<"assets", "/", "Alphabet", "/", "cities", "/", "NYC", "/", "Alphabet", "/",
          "A", "/", "Display", "/", "Decorative", "-", "upper", "/", "01.jpg">>,
        <<"assets", "/", "Alphabet", "/", "cities", "/", "NYC", "/", "Alphabet", "/",
          "A", "/", "Decorative", "-", "upper", "/", "01.jpg">>,
        <<"assets", "/", "Alphabet", "/", "cities", "/", "NYC", "/", "Alphabet", "/",
          "A", "/", "Display", "/", "Decorative", "/", "upper", "/", "01.jpg">>,
        <<"assets", "/", "Alphabet", "/", "cities", "/", "NYC", "/", "Alphabet", "/",
          "A", "/", "display", "/", "decorative", "-", "upper", "/", "01.jpg">>,
        <<"assets", "/", "Alphabet", "/", "cities", "/", "NYC", "/", "Alphabet", "/",
          "Q", "/", "Display", "/", "Decorative", "-", "upper", "/", "01.jpg">>,
        <<"assets", "/", "Alphabet", "/", "cities", "/", "NYC", "/", "Alphabet", "/",
          "Q", "/", "Decorative", "-", "upper", "/", "01.jpg">>  >>

\* const symbolRegex = /^[!@#$%^&*()+\\=\[\]{}|;':",./<>?_\-]$/
symbolRegex ==
    {"!", "@", "#", "$", "%", "^", "&", "*", "(", ")", "+", "\\", "=", "[", "]",
     "{", "}", "|", ";", "'", ":", "\"", ",", ".", "/", "<", ">", "?", "_", "-"}

\* const symbolMap = {...} of getLetterPath
getLetterPath_symbolMap ==
    [c \in {"!", "?", ".", ",", ":", ";", "\"", "'", "(", ")", "[", "]", "{", "}",
            "<", ">", "+", "-", "*", "/", "\\", "|", "=", "@", "#", "$", "%", "^",
            "&", "_"} |->
        CASE c = "!" -> "exclamation"
          [] c = "?" -> "question"
          [] c = "." -> "period"
          [] c = "," -> "comma"
          [] c = ":" -> "colon"
          [] c = ";" -> "semicolon"
          [] c = "\"" -> "quote"
          [] c = "'" -> "apostrophe"
          [] c = "(" -> "parenthesis-open"
          [] c = ")" -> "parenthesis-close"
          [] c = "[" -> "bracket-open"
          [] c = "]" -> "bracket-close"
          [] c = "{" -> "brace-open"
          [] c = "}" -> "brace-close"
          [] c = "<" -> "angle-open"
          [] c = ">" -> "angle-close"
          [] c = "+" -> "plus"
          [] c = "-" -> "minus"
          [] c = "*" -> "asterisk"
          [] c = "/" -> "slash"
          [] c = "\\" -> "backslash"
          [] c = "|" -> "vertical-bar"
          [] c = "=" -> "equals"
          [] c = "@" -> "at"
          [] c = "#" -> "hash"
          [] c = "$" -> "dollar"
          [] c = "%" -> "percent"
          [] c = "^" -> "caret"
          [] c = "&" -> "ampersand"
          [] c = "_" -> "underscore"]

\* the branch of getLetterPath for the styles 'decorative' and 'display':
\* stylePath, from this.decorativePathFormat when one was detected
decorativeStylePath(decorativePathFormat, caseType) ==
    IF decorativePathFormat # <<>> THEN
        LET pathParts == split(decorativePathFormat)
            isLetter(i) == pathParts[i] = <<"A">> \/ pathParts[i] = <<"Q">>
            \* indexOf(find(...)), as a position from 1; 0 when there is none
            letterIndex ==
                IF \E i \in 1..Len(pathParts) : isLetter(i)
                THEN CHOOSE i \in 1..Len(pathParts) :
                         isLetter(i) /\ \A j \in 1..(i - 1) : ~isLetter(j)
                ELSE 0
        IN  IF letterIndex >= 1 /\ letterIndex + 1 <= Len(pathParts) THEN
                replaceCase(
                    join(SubSeq(pathParts, letterIndex + 1, Len(pathParts) - 1)),
                    caseType)
            ELSE <<"Display", "/", "Decorative", "-", caseType>>
    ELSE <<"Display", "/", "Decorative", "-", caseType>>

\* LetterDatabase.getLetterPath: the path as tokens, <<>> for null;
\* decorativePathFormat is this.decorativePathFormat, <<>> when it is null
getLetterPath(character, styleKey, location, variantIndex, decorativePathFormat) ==
    LET idx == padStart(ToString(variantIndex))
    IN  IF IsDigit(character) THEN
            <<"assets", "/", "Numbers", "/", character, "/", idx \o ".jpg">>
        ELSE IF character \in symbolRegex THEN
            LET symbolName == IF character \in DOMAIN getLetterPath_symbolMap
                              THEN getLetterPath_symbolMap[character]
                              ELSE "symbol"
            IN  <<"assets", "/", "Symbols", "/", symbolName, "/", idx \o ".jpg">>
        ELSE IF IsLetter(character) THEN
            LET letter == toUpperCase(character)
                caseType == IF character = letter THEN "upper" ELSE "lower"
                stylePath ==
                    CASE styleKey = "sans" -> <<"sans", "-", caseType>>
                      [] styleKey = "serif" -> <<"serif", "-", caseType>>
                      [] styleKey \in {"decorative", "display"} ->
                            decorativeStylePath(decorativePathFormat, caseType)
                      [] styleKey = "random" -> <<"sans", "-", caseType>>
                      [] OTHER -> <<>>
            IN  IF styleKey \notin {"sans", "serif", "decorative", "display", "random"}
                THEN <<>>
                ELSE <<"assets", "/", "Alphabet", "/", "cities", "/", location,
                       "/", "Alphabet", "/", letter, "/">>
                     \o stylePath \o <<"/", idx \o ".jpg">>
        ELSE <<>>

-----------------------------------------------------------------------------
(* getLetterPath and _mapSymbolToFolderName as functions of their arguments *)

AssetManagerIdle ==
    /\ cache = [k \in Keys |-> NoValue]
    /\ loadingPromises = [k \in Keys |-> 0]
    /\ stats = [requested |-> 0, loaded |-> 0, failed |-> 0, cached |-> 0,
                fallbacks |-> 0]
    /\ loads = <<>>
    /\ calls = <<>>
    /\ clears = 0

PathIdle ==
    /\ pReq = Request("A", "sans", "upper", "NYC", "01")
    /\ pPaths = <<>>
    /\ pPc = "off"

LetterPathInit ==
    /\ AssetManagerIdle
    /\ PathIdle
    /\ gArgs \in [character : Chars, styleKey : StyleKeys, location : Cities,
                  variantIndex : 1..NumVariants,
                  decorativePathFormat :
                      {<<>>} \cup {decorativePathVariations[i] :
                                      i \in 1..Len(decorativePathVariations)}]
    /\ gPath = ""
    /\ gFolder = ""
    /\ gPc = {}
    /\ CheckIdle
    /\ DbIdle
    /\ UiIdle
    /\ UtilIdle

GetLetterPath ==
    /\ "getLetterPath" \notin gPc
    /\ gPath' = PathText(getLetterPath(gArgs.character, gArgs.styleKey,
                                       gArgs.location, gArgs.variantIndex,
                                       gArgs.decorativePathFormat))
    /\ gPc' = gPc \cup {"getLetterPath"}
    /\ UNCHANGED <<amVars, pathVars, gArgs, gFolder, probes, dbVars, uiVars, utilVars>>

MapSymbolToFolderName ==
    /\ "_mapSymbolToFolderName" \notin gPc
    /\ gFolder' = _mapSymbolToFolderName(gArgs.character)
    /\ gPc' = gPc \cup {"_mapSymbolToFolderName"}
    /\ UNCHANGED <<amVars, pathVars, gArgs, gPath, probes, dbVars, uiVars, utilVars>>

LetterPathNext ==
    \/ GetLetterPath
    \/ MapSymbolToFolderName

LetterPathSpec == LetterPathInit /\ [][LetterPathNext]_vars

-----------------------------------------------------------------------------
(* utils.js: checkFileExists, event by event                               *)
(*                                                                         *)
(* A call creates a promise, an Image whose src is set, and a timer.  The   *)
(* Image fires load or error once; the timer fires unless clearTimeout ran *)
(* first.  Each handler runs as one turn.                                  *)

\* the paths and timeouts checkFileExists is called with: candidates of
\* _loadWithFallbacks with its 1000 ms, and the default of 2000 ms
CheckPaths == {"assets/Alphabet/cities/NYC/Alphabet/A/sans-upper/01.jpg", MissingPath}
CheckTimeouts == {1000, 2000}

\* the state of a call right after checkFileExists returned its promise
Probe(path, timeout) ==
    [path |-> path, timeout |-> timeout, promise |-> "pending", value |-> FALSE,
     img |-> "loading", timer |-> "armed", events |-> <<>>]

\* the resolve function of the promise: the first call settles it
resolve(P, v) ==
    IF P.promise = "pending" THEN [P EXCEPT !.promise = "fulfilled", !.value = v]
    ELSE P

clearTimeout(P) == IF P.timer = "armed" THEN [P EXCEPT !.timer = "cleared"] ELSE P

\* img.onload = () => { clearTimeout(timeoutId); resolve(true); }
onload(P) == resolve(clearTimeout([P EXCEPT !.img = "loaded"]), TRUE)

\* img.onerror = () => { clearTimeout(timeoutId); resolve(false); }
onerror(P) == resolve(clearTimeout([P EXCEPT !.img = "failed"]), FALSE)

\* as ontimeout, but the timer rejects the promise
ontimeout_Reject(P) ==
    IF P.promise = "pending"
    THEN [P EXCEPT !.timer = "fired", !.promise = "rejected"]
    ELSE [P EXCEPT !.timer = "fired"]

\* setTimeout(() => { resolve(false); }, timeout)
ontimeout(P) == resolve([P EXCEPT !.timer = "fired"], FALSE)

CheckFileExists(path, timeout) ==
    /\ probes' = Append(probes, Probe(path, timeout))
    /\ UNCHANGED <<amVars, pathVars, letterPathVars, dbVars, uiVars, utilVars>>

OnLoad(i) ==
    /\ probes[i].img = "loading"
    /\ probes' = [probes EXCEPT
                      ![i] = [onload(@) EXCEPT !.events = Append(@, "load")]]
    /\ UNCHANGED <<amVars, pathVars, letterPathVars, dbVars, uiVars, utilVars>>

OnError(i) ==
    /\ probes[i].img = "loading"
    /\ probes' = [probes EXCEPT
                      ![i] = [onerror(@) EXCEPT !.events = Append(@, "error")]]
    /\ UNCHANGED <<amVars, pathVars, letterPathVars, dbVars, uiVars, utilVars>>

OnTimeout(i) ==
    /\ probes[i].timer = "armed"
    /\ probes' = [probes EXCEPT
                      ![i] = [ontimeout(@) EXCEPT !.events = Append(@, "timeout")]]
    /\ UNCHANGED <<amVars, pathVars, letterPathVars, dbVars, uiVars, utilVars>>

CheckInit ==
    /\ AssetManagerIdle
    /\ PathIdle
    /\ LetterPathIdle
    /\ DbIdle
    /\ UiIdle
    /\ UtilIdle
    /\ probes = <<>>

SomeCheck ==
    /\ Len(probes) < MaxProbes
    /\ \E path \in CheckPaths, timeout \in CheckTimeouts :
           CheckFileExists(path, timeout)

CheckNext ==
    \/ SomeCheck
    \/ \E i \in 1..Len(probes) : OnLoad(i)
    \/ \E i \in 1..Len(probes) : OnError(i)
    \/ \E i \in 1..Len(probes) : OnTimeout(i)

CheckSpec == CheckInit /\ [][CheckNext]_vars

-----------------------------------------------------------------------------
(* LetterDatabase (database.js): the object, its probes and its callers     *)
(*                                                                         *)
(* db holds the fields of the one LetterDatabase object and the            *)
(* asynchronous calls (tasks) that run on it, each with the probes its     *)
(* pathExists calls have started: _checkForAssets, which the constructor   *)
(* starts, and the calls of getLetterVariants.  A task runs until it       *)
(* awaits a probe; the event of the probe resumes it in the same turn.     *)
(* disk is the set of files the server has: an Image loads when its file   *)
(* is there and fails when it is not.                                      *)
(* The timer of a probe may fire before the Image of a file that is there  *)
(* has loaded; for a file that is not there the error comes first (a timer *)
(* firing before it gives the same answer, false).                         *)

\* const basicPaths, numberPaths, symbolPaths of _checkForAssets
basicPaths ==
    <<  <<"assets", "/", "Alphabet", "/", "cities", "/", "NYC", "/", "Alphabet", "/",
          "A", "/", "sans", "-", "upper", "/", "01.jpg">>,
        <<"assets", "/", "Alphabet", "/", "cities", "/", "NYC", "/", "Alphabet", "/",
          "a", "/", "sans", "-", "lower", "/", "01.jpg">>,
        <<"assets", "/", "Alphabet", "/", "cities", "/", "NYC", "/", "Alphabet", "/",
          "A", "/", "serif", "-", "upper", "/", "01.jpg">>  >>

numberPaths ==
    <<  <<"assets", "/", "Numbers", "/", "1", "/", "01.jpg">>,
        <<"assets", "/", "Numbers", "/", "0", "/", "01.jpg">>  >>

symbolPaths ==
    <<  <<"assets", "/", "Symbols", "/", "period", "/", "01.jpg">>,
        <<"assets", "/", "Symbols", "/", "comma", "/", "01.jpg">>  >>

\* the four loops of _checkForAssets, in program order
DetectionLists == <<basicPaths, numberPaths, symbolPaths, decorativePathVariations>>

\* const pathVariations = [...] of tryDecorativePathVariations
pathVariations(character, caseType, location, variantIndex) ==
    LET idx == padStart(ToString(variantIndex))
        letter == toUpperCase(character)
        dir == <<"assets", "/", "Alphabet", "/", "cities", "/", location, "/",
                 "Alphabet", "/", letter, "/">>
    IN  <<  dir \o <<"Display", "/", "Decorative", "-", caseType, "/", idx \o ".jpg">>,
            dir \o <<"Decorative", "-", caseType, "/", idx \o ".jpg">>,
            dir \o <<"Display", "/", "Decorative", "/", caseType, "/", idx \o ".jpg">>  >>

\* character === character.toUpperCase() ? 'upper' : 'lower'
caseTypeOf(character) ==
    IF character = toUpperCase(character) THEN "upper" ELSE "lower"

\* for (let i = 1; i <= 3; i++) of getLetterVariants
VariantsTried == 3

\* the calls of getLetterVariants this model makes: a decorative letter, a
\* symbol of the table, a character that is a lone surrogate
DbReqs ==
    {[character |-> "z", styleKey |-> "decorative", location |-> "NYC",
      skipFallback |-> FALSE],
     [character |-> "?", styleKey |-> "sans", location |-> "NYC",
      skipFallback |-> FALSE],
     [character |-> LoneSurrogate, styleKey |-> "sans", location |-> "NYC",
      skipFallback |-> FALSE]}

\* the files that may be on the server: a plain letter, a decorative letter
\* of the detection list in the layout without the Display folder, a
\* decorative letter outside the detection list
DbFiles ==
    {basicPaths[1], decorativePathVariations[2],
     pathVariations("z", "lower", "NYC", 1)[1]}

\* the position of a task: the loop it is in (phase), the loop's index i and
\* the inner index v
Pc(phase, i, v) == [phase |-> phase, i |-> i, v |-> v]

\* a task: an asynchronous call in progress.  path is the argument of the
\* pathExists call it awaits, probes the probes its pathExists calls started,
\* await the one it awaits, tried the arguments of all its pathExists calls
\* with this.decorativePathFormat at the time of each
Task(fn, args, pc) ==
    [fn |-> fn, args |-> args, pc |-> pc, found |-> <<>>, path |-> <<>>,
     probes |-> <<>>, await |-> 0, state |-> "running", result |-> <<>>,
     tried |-> <<>>]

NoArgs ==
    [character |-> "", styleKey |-> "", location |-> "", skipFallback |-> FALSE]

\* the object after the field initialisers of the constructor
NewLetterDatabase ==
    [pathExistsCache |-> <<>>, checked |-> FALSE, assetsDetected |-> FALSE,
     decorativePathFormat |-> <<>>, tasks |-> <<>>, successes |-> <<>>]

\* the argument of the pathExists call task T makes at its position; <<>> when
\* getLetterPath returned null and no call is made
PathAt(D, T) ==
    CASE T.pc.phase = "detect" -> DetectionLists[T.pc.i][T.pc.v]
      [] T.pc.phase = "decorative" ->
            pathVariations(T.args.character, caseTypeOf(T.args.character),
                           T.args.location, T.pc.i)[T.pc.v]
      [] T.pc.phase = "plain" ->
            getLetterPath(T.args.character, T.args.styleKey, T.args.location,
                          T.pc.i, D.decorativePathFormat)

\* as AfterPathExists, but _checkForAssets does not store the decorative path
\* it detected
AfterPathExists_NotStored(D, t, exists) ==
    LET T == D.tasks[t]
        pc == T.pc
        found == IF exists THEN Append(T.found, PathUrl(T.path)) ELSE T.found
    IN  CASE pc.phase = "detect" ->
                LET nextList == IF pc.i = Len(DetectionLists) THEN Pc("end", 1, 1)
                                ELSE Pc("detect", pc.i + 1, 1)
                IN  [D EXCEPT
                        !.assetsDetected = @ \/ exists,
                        !.tasks[t].pc =
                            IF exists \/ pc.v = Len(DetectionLists[pc.i])
                            THEN nextList ELSE Pc("detect", pc.i, pc.v + 1)]
          [] pc.phase = "decorative" ->
                LET nextVariant ==
                        IF pc.i < VariantsTried THEN Pc("decorative", pc.i + 1, 1)
                        ELSE IF found # <<>> THEN Pc("return", 1, 1)
                        ELSE Pc("plain", 1, 1)
                IN  [D EXCEPT
                        !.tasks[t].found = found,
                        !.tasks[t].pc =
                            IF exists \/ pc.v = 3 THEN nextVariant
                            ELSE Pc("decorative", pc.i, pc.v + 1)]
          [] pc.phase = "plain" ->
                [D EXCEPT
                    !.tasks[t].found = found,
                    !.tasks[t].pc = IF pc.i < VariantsTried
                                    THEN Pc("plain", pc.i + 1, 1)
                                    ELSE Pc("end", 1, 1)]

\* the code of task t between the return of a pathExists call with `exists`
\* and its next pathExists call: the loops of _checkForAssets (break at the
\* first path that exists), of tryDecorativePathVariations inside the loop
\* of getLetterVariants, and of getLetterVariants over getLetterPath
AfterPathExists(D, t, exists) ==
    LET T == D.tasks[t]
        pc == T.pc
        found == IF exists THEN Append(T.found, PathUrl(T.path)) ELSE T.found
    IN  CASE pc.phase = "detect" ->
                LET nextList == IF pc.i = Len(DetectionLists) THEN Pc("end", 1, 1)
                                ELSE Pc("detect", pc.i + 1, 1)
                IN  [D EXCEPT
                        !.assetsDetected = @ \/ exists,
                        !.decorativePathFormat =
                            IF exists /\ pc.i = Len(DetectionLists) THEN T.path ELSE @,
                        !.tasks[t].pc =
                            IF exists \/ pc.v = Len(DetectionLists[pc.i])
                            THEN nextList ELSE Pc("detect", pc.i, pc.v + 1)]
          [] pc.phase = "decorative" ->
                LET nextVariant ==
                        IF pc.i < VariantsTried THEN Pc("decorative", pc.i + 1, 1)
                        ELSE IF found # <<>> THEN Pc("return", 1, 1)
                        ELSE Pc("plain", 1, 1)
                IN  [D EXCEPT
                        !.tasks[t].found = found,
                        !.tasks[t].pc =
                            IF exists \/ pc.v = 3 THEN nextVariant
                            ELSE Pc("decorative", pc.i, pc.v + 1)]
          [] pc.phase = "plain" ->
                [D EXCEPT
                    !.tasks[t].found = found,
                    !.tasks[t].pc = IF pc.i < VariantsTried
                                    THEN Pc("plain", pc.i + 1, 1)
                                    ELSE Pc("end", 1, 1)]

\* the end of task t: _checkForAssets sets pathExistsCache.checked;
\* getLetterVariants returns found, after pushing the SVG fallback when found
\* is empty (or at once, when it is known that there are no assets)
Finish(D, t, rnd) ==
    LET T == D.tasks[t]
        c == T.args.character
        withCase == <<T.args.styleKey, caseTypeOf(c)>>
        fullStyle == IF T.pc.phase = "early" \/ IsLetter(c) THEN withCase
                     ELSE <<T.args.styleKey>>
        svgUrl == generateFallbackLetterSVG(c, fullStyle, rnd)
    IN  IF T.fn = "_checkForAssets" THEN
            [D EXCEPT !.checked = TRUE, !.tasks[t].state = "returned"]
        ELSE IF T.pc.phase = "return" \/ T.found # <<>> \/ T.args.skipFallback THEN
            [D EXCEPT !.tasks[t].state = "returned", !.tasks[t].result = T.found]
        ELSE IF svgUrl.tag = "error" THEN
            [D EXCEPT !.tasks[t].state = "rejected", !.tasks[t].result = <<svgUrl>>]
        ELSE
            [D EXCEPT !.tasks[t].state = "returned", !.tasks[t].found = <<svgUrl>>,
                      !.tasks[t].result = <<svgUrl>>]

\* task t runs from its position to its next await or to its end.  A
\* pathExists call answers from pathExistsCache, answers false when the
\* detection is over and found nothing, and else starts a probe (a promise,
\* an Image, a timer of 1000 ms) that the task awaits.
RECURSIVE Run(_, _, _)
Run(D, t, rnd) ==
    LET T == D.tasks[t]
    IN  IF T.pc.phase \in {"early", "return", "end"} THEN Finish(D, t, rnd)
        ELSE
            LET path == PathAt(D, T)
                called == [D EXCEPT
                              !.tasks[t].path = path,
                              !.tasks[t].tried =
                                  Append(@, [path |-> path, pc |-> T.pc,
                                             format |-> D.decorativePathFormat])]
            IN  IF path = <<>> THEN Run(AfterPathExists(D, t, FALSE), t, rnd)
                ELSE IF path \in DOMAIN D.pathExistsCache THEN
                    Run(AfterPathExists(called, t, D.pathExistsCache[path]), t, rnd)
                ELSE IF D.checked /\ ~D.assetsDetected THEN
                    Run(AfterPathExists(called, t, FALSE), t, rnd)
                ELSE
                    [called EXCEPT
                        !.tasks[t].probes = Append(@, Probe(path, 1000)),
                        !.tasks[t].await = Len(T.probes) + 1]

\* as PathExistsEvent, but only a path that exists is recorded
PathExistsEvent_PositiveOnly(D, t, k, ev, rnd) ==
    LET P == D.tasks[t].probes[k]
        exists == ev = "load"
        handled == CASE ev = "load" -> onload(P)
                     [] ev = "error" -> onerror(P)
                     [] ev = "timeout" -> ontimeout(P)
        recorded ==
            [D EXCEPT
                !.tasks[t].probes[k] = [handled EXCEPT !.events = Append(@, ev)],
                !.pathExistsCache = IF exists THEN (P.path :> exists) @@ @ ELSE @]
    IN  IF P.promise = "pending" THEN
            Run(AfterPathExists(
                    [recorded EXCEPT
                        !.tasks[t].await = 0,
                        !.successes = IF exists THEN Append(@, P.path) ELSE @],
                    t, exists),
                t, rnd)
        ELSE recorded

\* an event of probe k of task t: the handler of pathExists records the
\* outcome in pathExistsCache and calls resolve; when that settles the
\* promise, the task awaiting it goes on.  successes lists the paths whose
\* probe resolved to true, in the order of the events.
PathExistsEvent(D, t, k, ev, rnd) ==
    LET P == D.tasks[t].probes[k]
        exists == ev = "load"
        handled == CASE ev = "load" -> onload(P)
                     [] ev = "error" -> onerror(P)
                     [] ev = "timeout" -> ontimeout(P)
        recorded ==
            [D EXCEPT
                !.tasks[t].probes[k] = [handled EXCEPT !.events = Append(@, ev)],
                !.pathExistsCache = (P.path :> exists) @@ @]
    IN  IF P.promise = "pending" THEN
            Run(AfterPathExists(
                    [recorded EXCEPT
                        !.tasks[t].await = 0,
                        !.successes = IF exists THEN Append(@, P.path) ELSE @],
                    t, exists),
                t, rnd)
        ELSE recorded

\* getLetterVariants(character, styleKey, location, skipFallback), up to its
\* first await or its return
getLetterVariants(D, args, rnd) ==
    LET t == Len(D.tasks) + 1
        pc == IF D.checked /\ ~D.assetsDetected /\ ~args.skipFallback
              THEN Pc("early", 1, 1)
              ELSE IF IsLetter(args.character)
                      /\ args.styleKey \in {"decorative", "display"}
              THEN Pc("decorative", 1, 1)
              ELSE Pc("plain", 1, 1)
    IN  Run([D EXCEPT !.tasks = Append(@, Task("getLetterVariants", args, pc))],
            t, rnd)

\* new LetterDatabase(): the constructor calls _checkForAssets, which runs up
\* to its first await
DbInit ==
    /\ AssetManagerIdle
    /\ PathIdle
    /\ LetterPathIdle
    /\ CheckIdle
    /\ UiIdle
    /\ UtilIdle
    /\ disk \in SUBSET DbFiles
    /\ db = Run([NewLetterDatabase EXCEPT
                    !.tasks = <<Task("_checkForAssets", NoArgs, Pc("detect", 1, 1))>>],
                1, 0)

ProbeIds == {tk \in (1..Len(db.tasks)) \X (1..(VariantsTried * 4 + 1)) :
                 tk[2] <= Len(db.tasks[tk[1]].probes)}

TimersFired == {tk \in ProbeIds : db.tasks[tk[1]].probes[tk[2]].timer = "fired"}

ImageLoads(t, k, rnd) ==
    /\ db.tasks[t].probes[k].img = "loading"
    /\ db.tasks[t].probes[k].path \in disk
    /\ db' = PathExistsEvent(db, t, k, "load", rnd)
    /\ UNCHANGED <<amVars, pathVars, letterPathVars, probes, disk, uiVars, utilVars>>

ImageFails(t, k, rnd) ==
    /\ db.tasks[t].probes[k].img = "loading"
    /\ db.tasks[t].probes[k].path \notin disk
    /\ db' = PathExistsEvent(db, t, k, "error", rnd)
    /\ UNCHANGED <<amVars, pathVars, letterPathVars, probes, disk, uiVars, utilVars>>

TimerFires(t, k, rnd) ==
    /\ db.tasks[t].probes[k].timer = "armed"
    /\ db.tasks[t].probes[k].path \in disk
    /\ Cardinality(TimersFired) < MaxTimeouts
    /\ db' = PathExistsEvent(db, t, k, "timeout", rnd)
    /\ UNCHANGED <<amVars, pathVars, letterPathVars, probes, disk, uiVars, utilVars>>

\* a call of getLetterVariants by a caller that awaits each call before it
\* makes the next; the start-up detection may still be running
CallGetLetterVariants(args, rnd) ==
    /\ Len(db.tasks) < 1 + MaxVariantsCalls
    /\ \A t \in 2..Len(db.tasks) : db.tasks[t].state # "running"
    /\ db' = getLetterVariants(db, args, rnd)
    /\ UNCHANGED <<amVars, pathVars, letterPathVars, probes, disk, uiVars, utilVars>>

Draws == 0..(FilterIdRange - 1)

DbNext ==
    \/ \E args \in DbReqs, rnd \in Draws : CallGetLetterVariants(args, rnd)
    \/ \E tk \in ProbeIds, rnd \in Draws : ImageLoads(tk[1], tk[2], rnd)
    \/ \E tk \in ProbeIds, rnd \in Draws : ImageFails(tk[1], tk[2], rnd)
    \/ \E tk \in ProbeIds, rnd \in Draws : TimerFires(tk[1], tk[2], rnd)

DbSpec == DbInit /\ [][DbNext]_vars

-----------------------------------------------------------------------------
(* LetterSelector (letterSelector.js): _buildLetterObj                      *)
(*                                                                         *)
(* builds holds the calls of _buildLetterObj; each is at an                *)
(* `await assetManager.get(...)` or has returned.  The asset manager is    *)
(* seen here from its caller's side: a call of get is answered, in a       *)
(* later turn, with one of the candidate paths of _buildFallbackPaths,     *)
(* with the synthesized SVG, or with the error generateFallbackLetterSVG   *)
(* throws; the tables and counters behind that answer are the subject of   *)
(* Spec.  The code of _buildLetterObj after the await runs in the turn of  *)
(* the answer, up to its return or its next call of get.                   *)

\* this.variants, this.availableStyles (fontStyles.map(s => s.value)),
\* this.primaryStyles of the constructor
variants == <<"01", "02", "03", "04", "05">>
availableStyles == <<"sans", "serif", "mono", "script", "decorative">>
primaryStyles == <<"sans", "serif">>

\* const maxAttempts = 3
maxAttempts == 3

\* the values of the <select id="font-style"> the page passes as requestedStyle
StyleOptions == {"sans", "serif", "mono", "script", "decorative", "random"}

\* _random(arr), with k the value of Math.floor(Math.random() * arr.length)
_random(arr, k) == arr[k + 1]

\* _getRandomStyle(), with usePrimary the value of Math.random() < 0.7
_getRandomStyle(usePrimary, k) ==
    LET stylePool == IF usePrimary THEN primaryStyles ELSE availableStyles
    IN  _random(stylePool, k)

\* the styles line 50 can draw at an attempt
DrawnStyles(attempts) ==
    IF attempts = 0
    THEN {_getRandomStyle(TRUE, k) : k \in 0..(Len(primaryStyles) - 1)}
            \cup {_getRandomStyle(FALSE, k) : k \in 0..(Len(availableStyles) - 1)}
    ELSE {_random(primaryStyles, k) : k \in 0..(Len(primaryStyles) - 1)}

\* the variants line 54 draws in this model: the first and the last
DrawnVariants == {_random(variants, 0), _random(variants, Len(variants) - 1)}

\* the characters and cities _buildLetterObj is called with in this model
SelChars == {"a", LoneSurrogate}
SelCities == {"NYC"}

\* char === char.toUpperCase() ? 'upper' : 'lower'
charCaseOf(char) == IF char = toUpperCase(char) THEN "upper" ELSE "lower"

\* a call of _buildLetterObj: its parameters, its locals style and attempts,
\* the argument of the get it awaits or awaited last (req), the answer to the
\* get before (last), the number of its calls of get (gets), what it returned
NoRequest == Request("", "", "", "", "")

Build(char, requestedStyle, city) ==
    [char |-> char, requestedStyle |-> requestedStyle, city |-> city,
     style |-> requestedStyle, attempts |-> 0, req |-> NoRequest,
     last |-> NoValue, gets |-> 0, state |-> "running", result |-> NoValue]

\* the letter objects _buildLetterObj returns
LetterObj(value, url, style, charCase, isFallback) ==
    [type |-> "letter", value |-> value, url |-> url,
     style |-> <<style, charCase>>, isFallback |-> isFallback]

\* as attemptStyle, but the requested style is passed on as it is
attemptStyle_AsRequested(B, drawn) == B.requestedStyle

\* lines 49-51: the style of the attempt, drawn being the style the random
\* draw gives
attemptStyle(B, drawn) ==
    IF B.requestedStyle = "random" THEN drawn ELSE B.style

\* the loop of _buildLetterObj from its top to the await of get
attempt(B, drawn, variant) ==
    IF B.attempts < maxAttempts THEN
        LET style == attemptStyle(B, drawn)
        IN  [B EXCEPT
                !.style = style,
                !.req = Request(toUpperCase(B.char), style, charCaseOf(B.char),
                                B.city, variant),
                !.gets = @ + 1,
                !.state = "awaiting"]
    ELSE [B EXCEPT
            !.state = "returned",
            !.result = LetterObj(B.char, NoValue, "sans", charCaseOf(B.char), TRUE)]

\* as afterGet, but an SVG fallback or an error is retried whatever style was
\* requested
afterGet_RetryAlways(B, answer) ==
    LET charCase == charCaseOf(B.char)
        answered == [B EXCEPT !.last = answer]
    IN  IF answer.tag # "error" /\ ~IsSvgDataUrl(answer) THEN
            [answered EXCEPT
                !.state = "returned",
                !.result = LetterObj(B.char, answer, B.style, charCase, FALSE)]
        ELSE IF B.attempts < maxAttempts - 1 THEN
            [answered EXCEPT !.attempts = @ + 1, !.state = "running"]
        ELSE
            [answered EXCEPT
                !.state = "returned",
                !.result = LetterObj(B.char,
                                     IF answer.tag = "error" THEN NoValue ELSE answer,
                                     B.style, charCase, TRUE)]

\* the loop of _buildLetterObj from the answer of get to its return or to
\* `continue`: the try block for a url, the catch block for an error
afterGet(B, answer) ==
    LET charCase == charCaseOf(B.char)
        answered == [B EXCEPT !.last = answer]
        again == B.requestedStyle = "random" /\ B.attempts < maxAttempts - 1
    IN  IF answer.tag # "error" /\ ~IsSvgDataUrl(answer) THEN
            [answered EXCEPT
                !.state = "returned",
                !.result = LetterObj(B.char, answer, B.style, charCase, FALSE)]
        ELSE IF again THEN
            [answered EXCEPT !.attempts = @ + 1, !.state = "running"]
        ELSE
            [answered EXCEPT
                !.state = "returned",
                !.result = LetterObj(B.char,
                                     IF answer.tag = "error" THEN NoValue ELSE answer,
                                     B.style, charCase, TRUE)]

\* what assetManager.get(req) can answer: a candidate path that exists, the
\* SVG fallback, or the error thrown while the fallback is built
GetAnswers(req) ==
    LET paths == _buildFallbackPaths(req)
    IN  {PathUrl(paths[i]) : i \in 1..Len(paths)}
            \cup {generateFallbackLetterSVG(req.char, <<req.style, req.charCase>>, rnd) :
                     rnd \in 0..(FilterIdRange - 1)}

SelectorInit ==
    /\ AssetManagerIdle
    /\ PathIdle
    /\ LetterPathIdle
    /\ CheckIdle
    /\ DbIdle
    /\ UtilIdle
    /\ PageIdle
    /\ builds = <<>>

\* a call of _buildLetterObj, up to its first await
BuildLetterObj(char, requestedStyle, city, drawn, variant) ==
    /\ Len(builds) < MaxBuilds
    /\ builds' = Append(builds, attempt(Build(char, requestedStyle, city),
                                        drawn, variant))
    /\ UNCHANGED <<amVars, pathVars, letterPathVars, probes, dbVars, utilVars,
                   pageVars>>

\* the get that build b awaits is answered; the build returns or goes round
\* the loop to its next get
GetSettles(b, answer, drawn, variant) ==
    /\ builds[b].state = "awaiting"
    /\ LET B == afterGet(builds[b], answer)
       IN  builds' = [builds EXCEPT
                         ![b] = IF B.state = "running"
                                THEN attempt(B, drawn, variant) ELSE B]
    /\ UNCHANGED <<amVars, pathVars, letterPathVars, probes, dbVars, utilVars,
                   pageVars>>

SomeBuild ==
    \E char \in SelChars, requestedStyle \in StyleOptions, city \in SelCities :
        \E drawn \in DrawnStyles(0), variant \in DrawnVariants :
            BuildLetterObj(char, requestedStyle, city, drawn, variant)

SomeGetSettles ==
    \E b \in {i \in 1..Len(builds) : builds[i].state = "awaiting"} :
        \E answer \in GetAnswers(builds[b].req),
           drawn \in DrawnStyles(builds[b].attempts + 1),
           variant \in DrawnVariants :
            GetSettles(b, answer, drawn, variant)

SelectorNext ==
    \/ SomeBuild
    \/ SomeGetSettles

SelectorSpec == SelectorInit /\ [][SelectorNext]_vars

-----------------------------------------------------------------------------
(* utils.js: getSystemFontFallbacks and generateFallbackLetterSVG as        *)
(* functions of their arguments                                             *)

\* the characters and styles the two functions are applied to: a letter of
\* each case, a digit, a symbol of the regular expression of line 111, two
\* symbols outside it; the five styles with and without a case, an unknown
\* style, the empty string, undefined, a style that begins with '-', and a
\* name inherited from Object.prototype
UtilChars == {"A", "z", "5", "?", "~", "\\"}

UtilStyles ==
    {<<"sans">>, <<"sans", "upper">>, <<"serif">>, <<"serif", "lower">>,
     <<"mono">>, <<"mono", "upper">>, <<"script">>, <<"script", "lower">>,
     <<"decorative">>, <<"decorative", "upper">>, <<"display", "upper">>,
     <<"">>, undefined, <<"", "upper">>, <<"constructor">>}

UtilInit ==
    /\ AssetManagerIdle
    /\ PathIdle
    /\ LetterPathIdle
    /\ CheckIdle
    /\ DbIdle
    /\ UiIdle
    /\ util \in [char : UtilChars, style : UtilStyles, font : {""},
                 url : {NoValue}, pc : {{}}]

GetSystemFontFallbacks ==
    /\ "getSystemFontFallbacks" \notin util.pc
    /\ util' = [util EXCEPT !.font = getSystemFontFallbacks(util.style),
                            !.pc = @ \cup {"getSystemFontFallbacks"}]
    /\ UNCHANGED <<amVars, pathVars, letterPathVars, probes, dbVars, uiVars>>

GenerateFallbackLetterSVG(rnd) ==
    /\ "generateFallbackLetterSVG" \notin util.pc
    /\ util' = [util EXCEPT
                   !.url = generateFallbackLetterSVG(util.char, util.style, rnd),
                   !.pc = @ \cup {"generateFallbackLetterSVG"}]
    /\ UNCHANGED <<amVars, pathVars, letterPathVars, probes, dbVars, uiVars>>

UtilNext ==
    \/ GetSystemFontFallbacks
    \/ \E rnd \in 0..(FilterIdRange - 1) : GenerateFallbackLetterSVG(rnd)

UtilSpec == UtilInit /\ [][UtilNext]_vars

-----------------------------------------------------------------------------
(* Properties of AssetManager.get *)

LoadIds == 1..Len(loads)
CallIds == 1..Len(calls)

\* the probes of load L that found their file
Successes(L) == {i \in 1..Len(L.results) : L.results[i]}

\* every candidate of load L has been probed and none was found
Exhausted(L) == Len(L.results) = Len(L.paths) /\ Successes(L) = {}

\* the character whose encodeURIComponent form is text ("" when there is none)
decodeURIComponent(text) ==
    IF \E c \in Chars : encodeURIComponent(c).ok /\ encodeURIComponent(c).text = text
    THEN CHOOSE c \in Chars :
            encodeURIComponent(c).ok /\ encodeURIComponent(c).text = text
    ELSE ""

\* C1: a get for a key made while an earlier get for the same key is still
\* in flight, with no clearCache between the two, starts no second probe
\* sequence, and the two calls receive the same result.
C1_Coalesced ==
    \A j \in CallIds : \A i \in calls[j].inFlightBefore :
        calls[i].epoch = calls[j].epoch =>
            /\ calls[j].kind # "start"
            /\ (calls[i].state # "waiting" /\ calls[j].state # "waiting") =>
                   (calls[i].state = calls[j].state /\ calls[i].value = calls[j].value)

\* C2: within one resolution the candidates are probed one after another in
\* list order: at most the last started probe is unfinished, every probe
\* before it has failed, and a probe that succeeded is the last one started.
C2_SequentialProbing ==
    \A id \in LoadIds :
        LET L == loads[id]
        IN  /\ L.started \in 1..Len(L.paths)
            /\ Len(L.results) \in {L.started - 1, L.started}
            /\ \A i \in 1..(L.started - 1) : L.results[i] = FALSE
            /\ \A i \in Successes(L) : i = L.started /\ L.state = "fulfilled"
            /\ L.state = "pending" => Len(L.results) = L.started - 1

C2_Witness ==
    \E id \in LoadIds :
        /\ loads[id].results = <<FALSE, FALSE, TRUE>>
        /\ loads[id].started = 3

\* C3: get never rejects: every answered call holds an asset path or a
\* synthesized fallback data URL.
C3_GetNeverRejects ==
    \A i \in CallIds :
        /\ calls[i].state # "rejected"
        /\ calls[i].state = "fulfilled" =>
               (calls[i].value.tag = "path" \/ IsSvgDataUrl(calls[i].value))

\* C4: when every candidate of a request (the terminal assets/missing.png
\* included) fails its probe, the result is an inline SVG data URL that
\* contains the requested character; stats.fallbacks counts exactly these
\* resolutions and stats.loaded none of them.
C4_ExhaustionGivesSvg ==
    /\ \A id \in LoadIds :
           Exhausted(loads[id]) =>
               /\ loads[id].state = "fulfilled"
               /\ IsSvgDataUrl(loads[id].value)
               /\ decodeURIComponent(loads[id].value.text) = loads[id].req.char
               /\ \A i \in CallIds :
                      calls[i].load = id => calls[i].value = loads[id].value
    /\ stats.fallbacks = Cardinality({id \in LoadIds : Exhausted(loads[id])})
    /\ stats.loaded = Cardinality({id \in LoadIds : Successes(loads[id]) # {}})

\* C5: when a get for a key has returned a result and no clearCache has run
\* since that get was called, a later get with the same request fields is a
\* cache hit that returns the identical result without a probe; requested
\* counts every call and cached every hit.
C5_CacheIdempotence ==
    /\ \A j \in CallIds : \A i \in 1..(j - 1) :
           (/\ calls[i].req = calls[j].req
            /\ i \notin calls[j].inFlightBefore
            /\ calls[i].state = "fulfilled"
            /\ calls[i].epoch = calls[j].epoch)
           => (/\ calls[j].kind = "hit"
               /\ calls[j].state = "fulfilled"
               /\ calls[j].value = calls[i].value)
    /\ stats.requested = Len(calls)
    /\ stats.cached = Cardinality({j \in CallIds : calls[j].kind = "hit"})

\* C6: when a probe of a resolution succeeds, the resolution returns the
\* earliest candidate in list order whose probe succeeded, the call that
\* started it returns that path, and stats.loaded counts the resolution once.
C6_FirstSuccessWins ==
    /\ \A id \in LoadIds :
           LET L == loads[id]
           IN  Successes(L) # {} =>
                   LET first == CHOOSE i \in Successes(L) :
                                    \A k \in Successes(L) : i <= k
                   IN  /\ L.state = "fulfilled"
                       /\ L.value = PathUrl(L.paths[first])
                       /\ \A c \in CallIds :
                              calls[c].load = id =>
                                  /\ calls[c].state = "fulfilled"
                                  /\ calls[c].value = PathUrl(L.paths[first])
    /\ stats.loaded = Cardinality({id \in LoadIds : Successes(loads[id]) # {}})

\* only the city-fallback path of A / sans / upper / NYC / 01 exists
C6_Witness ==
    \E c \in CallIds :
        /\ calls[c].req = Request("A", "sans", "upper", "NYC", "01")
        /\ calls[c].kind = "start"
        /\ loads[calls[c].load].results = <<FALSE, TRUE>>
        /\ calls[c].value =
               PathUrl("assets/Alphabet/cities/NYC/fallback/sans-upper/01.jpg")
        /\ stats.loaded = 1

\* C7: if every probe reports in the end, every probe sequence that was
\* started runs to completion and every call of get is answered: again and
\* again no resolution is pending and no call is waiting.  (An answered call
\* stays answered, so this is "each call is eventually answered".)
C7_EveryGetAnswered ==
    []<>(/\ \A i \in CallIds : calls[i].state # "waiting"
         /\ \A id \in LoadIds : loads[id].state # "pending")

\* a resolution ran through all its candidates and answered two callers
C7_Witness ==
    \E id \in LoadIds :
        /\ Exhausted(loads[id])
        /\ loads[id].state # "pending"
        /\ \E i, j \in CallIds :
               /\ i # j
               /\ calls[i].load = id /\ calls[j].load = id
               /\ calls[i].state # "waiting" /\ calls[j].state # "waiting"

-----------------------------------------------------------------------------
(* Properties of AssetManager.stats *)

\* C13: a step in which get is called (the list of calls grows by one, be the
\* call a cache hit, a join or a start) increases stats.requested by exactly
\* 1, and no other step, whatever a resolution comes to, changes it.
C13_EveryCallCounted ==
    [][/\ Len(calls') = Len(calls) + 1 => stats'.requested = stats.requested + 1
       /\ Len(calls') = Len(calls) => stats'.requested = stats.requested]_vars

\* a start and a join, both answered with a rejection, counted as two
C13_Witness ==
    /\ Len(calls) = 2
    /\ calls[1].kind = "start" /\ calls[1].state = "rejected"
    /\ calls[2].kind = "join" /\ calls[2].state = "rejected"
    /\ stats.requested = 2

Counters == {"requested", "loaded", "failed", "cached", "fallbacks"}

\* C14: in a step that is a call of get or the completion of a probe, none
\* of the counters requested, loaded, failed, cached, fallbacks decreases
\* (getStats returns a copy of the counters and changes nothing).
C14_CountersNeverDecrease ==
    [][clears' = clears => \A c \in Counters : stats'[c] >= stats[c]]_vars

\* a start that found its file and a cache hit
C14_Witness ==
    /\ stats.requested = 2
    /\ stats.loaded = 1
    /\ stats.cached = 1
    /\ getStats.cacheSize = 1

\* C15: clearCache sets the counters requested, loaded, failed, cached and
\* fallbacks back to 0, and no other operation resets a counter.
C15_ClearResetsStats ==
    [][/\ clears' = clears + 1 => \A c \in Counters : stats'[c] = 0
       /\ clears' = clears => \A c \in Counters : stats'[c] = 0 => stats[c] = 0]_vars

-----------------------------------------------------------------------------
(* Properties of the memo table and the in-flight map *)

\* C16: outside clearCache an entry of the memo table is never overwritten
\* or removed, also when a clearCache ran while resolutions were in flight,
\* and an entry is written only by a resolution of its key that completes
\* with that value.
C16_MemoInsertOnce ==
    [][clears' = clears =>
          \A k \in Keys :
              /\ has(cache, k) => cache'[k] = cache[k]
              /\ cache'[k] # cache[k] =>
                     \E id \in LoadIds :
                         /\ loads[id].key = k
                         /\ loads[id].state = "pending"
                         /\ loads'[id].state = "fulfilled"
                         /\ loads'[id].value = cache'[k]]_vars

\* C17: a call of clearCache empties the memo table and the in-flight map in
\* one step: in the state it leaves, the first a caller can observe, getStats
\* reports cacheSize = 0 and pendingLoads = 0.
C17_ClearWipesBoth ==
    [][clears' = clears + 1 =>
          /\ getStats'.cacheSize = 0
          /\ getStats'.pendingLoads = 0
          /\ \A k \in Keys : ~has(cache', k) /\ loadingPromises'[k] = 0]_vars

\* clearCache ran when one key was in the memo table and a resolution of the
\* other key was in flight
C17_Witness ==
    /\ clears = 1
    /\ getStats.cacheSize = 0
    /\ getStats.pendingLoads = 0
    /\ \E i, j \in CallIds :
           /\ calls[i].epoch = 0 /\ calls[i].state = "fulfilled"
           /\ calls[j].epoch = 0 /\ calls[j].state = "waiting"
           /\ calls[i].key # calls[j].key

\* C18: at no time are two resolutions of one cache key in flight, whatever
\* the interleaving of get calls, probe completions and clearCache calls.
C18_OneResolutionPerKey ==
    \A i, j \in LoadIds :
        (/\ loads[i].key = loads[j].key
         /\ loads[i].state = "pending"
         /\ loads[j].state = "pending") => i = j

-----------------------------------------------------------------------------
(* Properties of AssetManager._buildFallbackPaths *)

\* the number a variant string stands for, and its two-digit form
VariantNumber(v) ==
    CHOOSE n \in 1..NumVariants : v = ToString(n) \/ v = "0" \o ToString(n)
TwoDigit(n) == "0" \o ToString(n)

\* C8: the candidate list is never empty, ends with assets/missing.png and
\* holds that path nowhere else.
C8_EndsWithGlobalFallback ==
    pPc = "resolved" =>
        /\ Len(pPaths) >= 1
        /\ pPaths[Len(pPaths)] = "assets/missing.png"
        /\ \A i \in 1..(Len(pPaths) - 1) : pPaths[i] # "assets/missing.png"

C8_Witness ==
    /\ pPc = "resolved"
    /\ pReq.char = "~"
    /\ pPaths[Len(pPaths)] = "assets/missing.png"

\* C9: before the terminal fallback the list holds exactly 6 paths for a
\* letter and exactly 5 for a digit or a symbol, whatever the variant, and no
\* path occurs twice in the list.
C9_CandidateCount ==
    pPc = "resolved" =>
        /\ Len(pPaths) - 1 =
               (IF pReq.char \in {"A", "Z", "a", "z"} THEN 6 ELSE 5)
        /\ \A i, j \in 1..Len(pPaths) : i # j => pPaths[i] # pPaths[j]

C9_Witness ==
    /\ pPc = "resolved"
    /\ pReq.char = "5"
    /\ pReq.variant = "5"
    /\ Len(pPaths) = 6

\* C10: for a letter the candidates are, in this order, the letter path at
\* the requested variant, the city-fallback path at the requested variant,
\* and the letter path at the four other variants in ascending order; the
\* letter folder is the upper-case letter and the variant has two digits.
C10_LetterCandidates ==
    (pPc = "resolved" /\ pReq.char \in {"A", "Z", "a", "z"}) =>
        LET LETTER == IF pReq.char \in {"A", "a"} THEN "A" ELSE "Z"
            dir == "assets/Alphabet/cities/" \o pReq.city \o "/Alphabet/"
                       \o LETTER \o "/" \o pReq.style \o "-" \o pReq.charCase \o "/"
            n == VariantNumber(pReq.variant)
            others == SelectSeq(<<1, 2, 3, 4, 5>>, LAMBDA k : k # n)
        IN  /\ pPaths[1] = dir \o TwoDigit(n) \o ".jpg"
            /\ pPaths[2] = "assets/Alphabet/cities/" \o pReq.city \o "/fallback/"
                               \o pReq.style \o "-" \o pReq.charCase \o "/"
                               \o TwoDigit(n) \o ".jpg"
            /\ \A k \in 1..4 : pPaths[2 + k] = dir \o TwoDigit(others[k]) \o ".jpg"

C10_Witness ==
    /\ pPc = "resolved"
    /\ pReq = Request("a", "serif", "lower", "NYC", "3")
    /\ pPaths[1] = "assets/Alphabet/cities/NYC/Alphabet/A/serif-lower/03.jpg"
    /\ pPaths[3] = "assets/Alphabet/cities/NYC/Alphabet/A/serif-lower/01.jpg"
    /\ pPaths[6] = "assets/Alphabet/cities/NYC/Alphabet/A/serif-lower/05.jpg"

\* C11: for a digit the candidates before the terminal fallback are
\* assets/Numbers/<digit>/NN.jpg, for any other non-letter
\* assets/Symbols/<symbol-name>/NN.jpg, at the requested variant first and
\* then at the four other variants in ascending order; every request with
\* the same character and variant, whatever its style, case and city, gets
\* the same list.
C11_DigitSymbolCandidates ==
    (pPc = "resolved" /\ pReq.char \notin {"A", "Z", "a", "z"}) =>
        LET dir == IF pReq.char \in {"0", "5"}
                   THEN "assets/Numbers/" \o pReq.char \o "/"
                   ELSE "assets/Symbols/" \o _mapSymbolToFolderName(pReq.char) \o "/"
            n == VariantNumber(pReq.variant)
            others == SelectSeq(<<1, 2, 3, 4, 5>>, LAMBDA k : k # n)
        IN  /\ Len(pPaths) = 6
            /\ pPaths[1] = dir \o TwoDigit(n) \o ".jpg"
            /\ \A k \in 1..4 : pPaths[1 + k] = dir \o TwoDigit(others[k]) \o ".jpg"
            /\ \A st \in Styles, cs \in Cases, ci \in Cities :
                   _buildFallbackPaths(
                       Request(pReq.char, st, cs, ci, pReq.variant)) = pPaths

C11_Witness ==
    /\ pPc = "resolved"
    /\ pReq = Request("5", "script", "lower", "LA", "04")
    /\ pPaths = <<"assets/Numbers/5/04.jpg", "assets/Numbers/5/01.jpg",
                  "assets/Numbers/5/02.jpg", "assets/Numbers/5/03.jpg",
                  "assets/Numbers/5/05.jpg", "assets/missing.png">>

-----------------------------------------------------------------------------
(* Properties of the symbol folders *)

\* the folder the fixed table gives a character, 'symbol' outside the table
TableFolder(c) == IF c \in DOMAIN symbolMap THEN symbolMap[c] ELSE "symbol"

IsSymbolChar(c) == c \notin {"A", "Z", "a", "z", "0", "5"}

BothMapped == gPc = {"getLetterPath", "_mapSymbolToFolderName"}

\* C12: a character that is neither a letter nor a digit is mapped to its
\* folder through the fixed table ('?' to question, '!' to exclamation, '.'
\* to period) and to the folder symbol when the table does not hold it, by
\* _mapSymbolToFolderName and by getLetterPath alike.
C12_SymbolFolder ==
    (BothMapped /\ IsSymbolChar(gArgs.character)) =>
        /\ gFolder = TableFolder(gArgs.character)
        /\ gPath = "assets/Symbols/" \o TableFolder(gArgs.character) \o "/"
                       \o TwoDigit(gArgs.variantIndex) \o ".jpg"
        /\ gArgs.character = "?" => gFolder = "question"
        /\ gArgs.character = "!" => gFolder = "exclamation"
        /\ gArgs.character = "." => gFolder = "period"

-----------------------------------------------------------------------------
(* Properties of checkFileExists *)

\* C19: the promise of checkFileExists is never rejected; it is pending
\* until the first of load, error and timeout, and from then on it holds
\* the outcome of that first event, true for load and false for error and
\* for timeout, whatever event arrives later.
C19_FirstEventDecides ==
    \A i \in 1..Len(probes) :
        LET P == probes[i]
        IN  /\ P.promise \in {"pending", "fulfilled"}
            /\ P.promise = "pending" <=> P.events = <<>>
            /\ P.events # <<>> => P.value = (P.events[1] = "load")

\* the image loads after the timer has fired
C19_Witness ==
    \E i \in 1..Len(probes) :
        /\ probes[i].events = <<"timeout", "load">>
        /\ probes[i].promise = "fulfilled"
        /\ probes[i].value = FALSE

-----------------------------------------------------------------------------
(* Properties of the decorative layout LetterDatabase remembers             *)

\* the structural layout of a letter path: what stands between the letter's
\* folder and the case, e.g. <<"Display", "/", "Decorative", "-">>
Layout(path) == SubSeq(path, 13, Len(path) - 3)

DetectionFormats == {decorativePathVariations[j] : j \in DOMAIN decorativePathVariations}

IsDecorativePath(path) ==
    /\ Len(path) > 15
    /\ Layout(path) \in {Layout(f) : f \in DetectionFormats}
                            \cup {<<"Display", "/", "Decorative", "/">>}

IsDecorativeCall(T) ==
    /\ T.fn = "getLetterVariants"
    /\ IsLetter(T.args.character)
    /\ T.args.styleKey \in {"decorative", "display"}

\* the probes of the start-up detection that answered true for a path of
\* decorativePathVariations
DetectionHits ==
    {k \in 1..Len(db.tasks[1].probes) :
        /\ db.tasks[1].probes[k].path \in DetectionFormats
        /\ db.tasks[1].probes[k].promise = "fulfilled"
        /\ db.tasks[1].probes[k].value}

\* C20 as stated: the first decorative layout whose probe ever succeeded, at
\* start-up or at a request, is remembered in decorativePathFormat, and a
\* decorative request made while a layout is remembered tries that layout
\* first.
C20_RemembersFirstSuccess ==
    LET decorativeSuccesses == SelectSeq(db.successes, IsDecorativePath)
    IN  /\ decorativeSuccesses # <<>> =>
                /\ db.decorativePathFormat # <<>>
                /\ Layout(db.decorativePathFormat) = Layout(decorativeSuccesses[1])
        /\ \A t \in 1..Len(db.tasks) :
                (/\ IsDecorativeCall(db.tasks[t])
                 /\ db.tasks[t].tried # <<>>
                 /\ db.tasks[t].tried[1].format # <<>>)
                => Layout(db.tasks[t].tried[1].path)
                       = Layout(db.tasks[t].tried[1].format)

\* C20 amended: decorativePathFormat is written by the start-up detection
\* only.  It is null until a probe of that detection answers true for a path
\* of decorativePathVariations, and from then on it is that path, the first
\* of the list that answered true; no request changes it.  A decorative
\* request tries the three layouts of tryDecorativePathVariations in their
\* fixed order for each variant, whatever is remembered, and only when none
\* of them exists does getLetterPath build its paths in the remembered layout.
C20_LayoutDetectedAtStartUp ==
    /\ Cardinality(DetectionHits) <= 1
    /\ DetectionHits = {} => db.decorativePathFormat = <<>>
    /\ \A k \in DetectionHits :
            /\ db.decorativePathFormat = db.tasks[1].probes[k].path
            /\ \A j \in DOMAIN decorativePathVariations :
                    decorativePathVariations[j] = db.decorativePathFormat =>
                        \A h \in 1..(j - 1) :
                            \E e \in 1..(k - 1) :
                                /\ db.tasks[1].probes[e].path = decorativePathVariations[h]
                                /\ db.tasks[1].probes[e].promise = "fulfilled"
                                /\ ~db.tasks[1].probes[e].value
    /\ \A t \in 1..Len(db.tasks) : IsDecorativeCall(db.tasks[t]) =>
            LET tried == db.tasks[t].tried
                args == db.tasks[t].args
            IN  \A n \in 1..Len(tried) :
                    /\ n = 1 => tried[n].pc = Pc("decorative", 1, 1)
                    /\ tried[n].pc.phase = "decorative" =>
                            /\ tried[n].path =
                                   pathVariations(args.character, caseTypeOf(args.character),
                                                  args.location, tried[n].pc.i)[tried[n].pc.v]
                            /\ tried[n].pc.v > 1 =>
                                   /\ n > 1
                                   /\ tried[n - 1].pc =
                                          Pc("decorative", tried[n].pc.i, tried[n].pc.v - 1)
                    /\ (tried[n].pc.phase = "plain" /\ tried[n].format # <<>>) =>
                            /\ Layout(tried[n].path) = Layout(tried[n].format)
                            /\ \A i \in 1..VariantsTried, v \in 1..3 :
                                   \E m \in 1..(n - 1) : tried[m].pc = Pc("decorative", i, v)

\* C20 witness: the start-up detection remembered the layout without the
\* Display folder; a later request for a decorative z tried the layout with
\* the Display folder first, found none of the three layouts, and then asked
\* for the path getLetterPath built in the remembered layout.
C20_Witness ==
    /\ db.decorativePathFormat = decorativePathVariations[2]
    /\ DetectionHits # {}
    /\ \E t \in 2..Len(db.tasks) :
            /\ IsDecorativeCall(db.tasks[t])
            /\ db.tasks[t].tried[1].format = decorativePathVariations[2]
            /\ db.tasks[t].tried[1].path =
                   pathVariations("z", "lower", "NYC", 1)[1]
            /\ \E n \in 1..Len(db.tasks[t].tried) :
                    /\ db.tasks[t].tried[n].pc.phase = "plain"
                    /\ db.tasks[t].tried[n].path =
                           <<"assets", "/", "Alphabet", "/", "cities", "/", "NYC", "/",
                             "Alphabet", "/", "Z", "/", "Decorative", "-", "lower", "/",
                             "01.jpg">>

-----------------------------------------------------------------------------
(* Properties of LetterSelector._buildLetterObj *)

\* C21: every call of assetManager.get that _buildLetterObj makes carries a
\* style of {sans, serif, mono, script, decorative}, never 'random', also
\* when 'random' was requested.
C21_ConcreteStyle ==
    \A b \in 1..Len(builds) :
        builds[b].gets > 0 =>
            /\ builds[b].req.style \in Styles
            /\ builds[b].req.style # "random"

\* C21 witness: a build for 'random' is at its second call of get, made with
\* a concrete style.
C21_Witness ==
    \E b \in 1..Len(builds) :
        /\ builds[b].requestedStyle = "random"
        /\ builds[b].state = "awaiting"
        /\ builds[b].gets = 2
        /\ builds[b].req.style = "serif"

-----------------------------------------------------------------------------
(* Properties of requests for a character of no supported class *)

\* a character that is no letter, no digit and not in the symbol table
IsOtherChar(c) == ~IsLetter(c) /\ ~IsDigit(c) /\ c \notin DOMAIN symbolMap

-----------------------------------------------------------------------------
(* Properties of the functions of utils.js *)

\* the part of a style before its first '-'
FirstPart(styleParts) == IF styleParts = undefined THEN "undefined" ELSE styleParts[1]

Colours(url) == [fill |-> url.fill, background |-> url.background, stroke |-> url.stroke]

DefaultPalette == [fill |-> "#333", background |-> "#f0f0f0", stroke |-> "#ccc"]

\* the palette the style alone gives
StylePalette(styleParts) ==
    IF FirstPart(styleParts) \in DOMAIN styleColorMap
    THEN styleColorMap[FirstPart(styleParts)]
    ELSE DefaultPalette

Generated == "generateFallbackLetterSVG" \in util.pc /\ util.url.tag = "data"

\* C23 as stated: whatever the character, the fill, background and stroke of
\* the synthesized fallback are those of the palette of the style's base name
\* (the default palette for an unknown style).
C23_PaletteOfStyle ==
    Generated => Colours(util.url) = StylePalette(util.style)

\* C23 amended: the font family is a function of the style's base name for
\* every character, but the colours are so only for a character that is no
\* digit and no symbol of [!@#$%^&*()_+-=[]{}|;':",./<>?]: a digit is always
\* drawn in #6a5acd on #f5f0ff with stroke #483d8b, such a symbol always in
\* #ff8c00 on #fff8f0 with stroke #cc7000.  For the other characters a base
\* name of the table gives its palette, a name inherited from
\* Object.prototype (constructor, ...) gives three undefined colours, and
\* every other style, the empty string and undefined give #333, #f0f0f0, #ccc.
C23_PaletteByClassThenStyle ==
    Generated =>
        /\ \A other \in UtilStyles :
              FirstPart(other) = FirstPart(util.style) =>
                  generateFallbackLetterSVG(util.char, other, 0).font = util.url.font
        /\ Colours(util.url) =
              CASE util.char \in {"0", "1", "2", "3", "4", "5", "6", "7", "8", "9"} ->
                      [fill |-> "#6a5acd", background |-> "#f5f0ff", stroke |-> "#483d8b"]
                [] util.char = "?" ->
                      [fill |-> "#ff8c00", background |-> "#fff8f0", stroke |-> "#cc7000"]
                [] OTHER ->
                      IF FirstPart(util.style) \in InheritedNames
                      THEN [fill |-> "undefined", background |-> "undefined",
                            stroke |-> "undefined"]
                      ELSE StylePalette(util.style)

\* C23 witness: the fallback of the digit 5 in style serif-lower has the
\* colours of digits and the font of serif.
C23_Witness ==
    /\ Generated
    /\ util.char = "5"
    /\ util.style = <<"serif", "lower">>
    /\ util.url.fill = "#6a5acd"
    /\ util.url.font = "Georgia, \"Times New Roman\", serif"


FontReturned == "getSystemFontFallbacks" \in util.pc

\* the font names that precede the last family of a stack
StackHeads ==
    {"", "Arial, Helvetica, ", "Georgia, \"Times New Roman\", ",
     "\"Courier New\", Courier, ", "\"Comic Sans MS\", cursive, ", "\"Impact\", "}

EndsIn(stack, family) == \E head \in StackHeads : stack = head \o family

-----------------------------------------------------------------------------
(* Properties of resolutions that reject or outlive a clearCache *)

\* C25: in the step in which the resolution of a key rejects, the key has no
\* in-flight marker and no memo entry afterwards and every call waiting on the
\* resolution is rejected with its error; a get for a key that has neither a
\* memo entry nor a marker starts a resolution.
C25_RejectionCleansUp ==
    [][/\ \A id \in LoadIds :
              (loads[id].state = "pending" /\ loads'[id].state = "rejected") =>
                  /\ loadingPromises'[loads[id].key] = 0
                  /\ ~has(cache', loads[id].key)
                  /\ \A i \in CallIds :
                         (calls[i].load = id /\ calls[i].state = "waiting") =>
                             /\ calls'[i].state = "rejected"
                             /\ calls'[i].value = loads'[id].value
       /\ Len(calls') = Len(calls) + 1 =>
              LET c == calls'[Len(calls')]
              IN  (~has(cache, c.key) /\ loadingPromises[c.key] = 0) =>
                      (c.kind = "start" /\ c.load = Len(loads) + 1)]_vars


\* C26: in every state between two turns no cache key has both a memo entry
\* and an in-flight marker.
C26_MemoOrMarker ==
    \A k \in Keys : ~(has(cache, k) /\ loadingPromises[k] # 0)

\* C26 witness: a resolution that a clearCache forgot has written the memo
\* entry of its key while a resolution started after the clear is in flight.
C26_Witness ==
    /\ clears = 1
    /\ \E i, j \in LoadIds :
           /\ i < j
           /\ loads[i].key = loads[j].key
           /\ loads[i].state = "fulfilled"
           /\ loads[j].state = "pending"
           /\ has(cache, loads[i].key)
           /\ loadingPromises[loads[i].key] = 0


-----------------------------------------------------------------------------
(* Properties of the counters of resolutions *)

Settled == {id \in LoadIds : loads[id].state # "pending"}

FoundPath == {id \in Settled : loads[id].value.tag = "path"}

\* C27: every probe sequence that has ended has added 1 to exactly one of
\* stats.loaded (it found a candidate) and stats.fallbacks (it found none),
\* and a sequence still running has added nothing; so cached + loaded +
\* fallbacks <= requested, and the memo table has at most loaded + fallbacks
\* entries.
C27_OneCountPerResolution ==
    /\ stats.loaded = Cardinality(FoundPath)
    /\ stats.fallbacks = Cardinality(Settled \ FoundPath)
    /\ stats.cached + stats.loaded + stats.fallbacks <= stats.requested
    /\ getStats.cacheSize <= stats.loaded + stats.fallbacks

\* C27 witness: one sequence found a candidate, another found none and
\* rejected, and a clearCache has emptied the memo table since.
C27_Witness ==
    /\ stats.loaded = 1
    /\ stats.fallbacks = 1
    /\ stats.requested = 2
    /\ clears = 1
    /\ getStats.cacheSize = 0
    /\ \E id \in Settled : loads[id].state = "rejected"


\* C28: stats.failed is 0 in every reachable state: neither a failed probe
\* nor a resolution that found no candidate, nor one that rejected, adds to it.
C28_FailedStaysZero ==
    /\ stats.failed = 0
    /\ getStats.failed = 0

\* C28 witness: one resolution has run out of candidates and returned the
\* synthesized fallback, another has run out and rejected, and failed is 0.
C28_Witness ==
    /\ stats.failed = 0
    /\ \E i, j \in LoadIds :
           /\ Exhausted(loads[i]) /\ loads[i].state = "fulfilled"
           /\ Exhausted(loads[j]) /\ loads[j].state = "rejected"


\* the resolutions started before the latest clearCache
Stale == {id \in LoadIds :
             \E c \in CallIds :
                 calls[c].kind = "start" /\ calls[c].load = id /\ calls[c].epoch < clears}

\* C29: the step in which a resolution started before a clearCache completes
\* changes neither the memo table nor the in-flight map.
C29_StaleResolutionIsInert ==
    [][\A id \in Stale :
           (loads[id].state = "pending" /\ loads'[id].state # "pending") =>
               (cache' = cache /\ loadingPromises' = loadingPromises)]_vars


-----------------------------------------------------------------------------
(* Termination of LetterSelector._buildLetterObj *)

BuildIds == 1..Len(builds)

IsRealAsset(answer) == answer.tag = "path"

\* what holds of build B between two turns
BuildBounded(B) ==
    /\ B.state \in {"awaiting", "returned"}
    /\ B.gets = B.attempts + 1
    /\ B.gets <= maxAttempts
    /\ B.requestedStyle # "random" => B.gets = 1
    /\ B.gets > 1 =>
           /\ B.requestedStyle = "random"
           /\ B.req.style \in {"sans", "serif"}
           /\ B.state = "awaiting" =>
                  (B.last.tag = "error" \/ IsSvgDataUrl(B.last))
    /\ B.state = "returned" =>
           /\ B.result.type = "letter"
           /\ B.result.value = B.char
           /\ B.result.style = <<B.req.style, charCaseOf(B.char)>>
           /\ B.result.isFallback = ~IsRealAsset(B.last)
           /\ B.result.url = IF B.last.tag = "error" THEN NoValue ELSE B.last
    /\ IsRealAsset(B.last) => B.state = "returned"

\* what an answer of get does to the build that awaits it
AnswerAdvances(B, C) ==
    \/ C = B
    \/ /\ B.state = "awaiting"
       /\ \/ C.state = "returned" /\ C.gets = B.gets
          \/ C.state = "awaiting" /\ C.gets = B.gets + 1
       /\ B.gets = maxAttempts => C.state = "returned"

\* C30: _buildLetterObj calls get once when the requested style is concrete
\* and at most three times when it is 'random'; it calls get again only after
\* an SVG fallback or an error, then with a style of {sans, serif}; every
\* answer of get makes it return or call get once more, the third answer and
\* the first real asset path always make it return, and what it returns is a
\* letter object; so a call whose gets are all answered returns after at
\* most three answers.
C30_BuildTerminates ==
    /\ [](\A b \in BuildIds : BuildBounded(builds[b]))
    /\ [][\A b \in BuildIds : AnswerAdvances(builds[b], builds'[b])]_vars

\* C30 witness: a call with style 'random' has returned the SVG fallback
\* after three calls of get, the last two with a style of {sans, serif}.
C30_Witness ==
    \E b \in BuildIds :
        /\ builds[b].requestedStyle = "random"
        /\ builds[b].state = "returned"
        /\ builds[b].gets = 3
        /\ builds[b].req.style = "serif"
        /\ IsSvgDataUrl(builds[b].last)
        /\ builds[b].result.isFallback


-----------------------------------------------------------------------------
(* Properties of LetterDatabase.pathExists *)

DbTasks == 1..Len(db.tasks)

\* the task t before a step; a task the step creates has made no call yet
TaskBefore(t) ==
    IF t <= Len(db.tasks) THEN db.tasks[t] ELSE Task("", NoArgs, Pc("", 1, 1))

\* the pathExists calls task t makes in a step that pathExists answers in the
\* same step, that is all but the one the task awaits after the step
AnsweredAtOnce(t) ==
    {j \in (Len(TaskBefore(t).tried) + 1)..Len(db'.tasks[t].tried) :
        ~(j = Len(db'.tasks[t].tried) /\ db'.tasks[t].await # 0)}

\* the calls among them that pathExists answers with true: the path is
\* recorded as existing
AnsweredTrue(t) ==
    {j \in AnsweredAtOnce(t) :
        /\ db'.tasks[t].tried[j].path \in DOMAIN db'.pathExistsCache
        /\ db'.pathExistsCache[db'.tasks[t].tried[j].path]}

\* the probe task t awaited resolves in the step, with true
AwaitedFound(t) ==
    IF /\ TaskBefore(t).await # 0
       /\ db'.tasks[t].probes[TaskBefore(t).await].promise = "fulfilled"
       /\ db'.tasks[t].probes[TaskBefore(t).await].value
    THEN 1 ELSE 0

\* C36: a path whose probe has resolved is recorded in pathExistsCache, with
\* true or with false; a call of pathExists for a recorded path starts no
\* probe, and it returns what is recorded: the caller takes the path as found
\* exactly when true is recorded.
C36_PathExistsCached ==
    /\ [](\A t \in DbTasks : \A k \in 1..Len(db.tasks[t].probes) :
             db.tasks[t].probes[k].promise = "fulfilled" =>
                 db.tasks[t].probes[k].path \in DOMAIN db.pathExistsCache)
    /\ [][\A t \in 1..Len(db'.tasks) :
             /\ \A k \in (Len(TaskBefore(t).probes) + 1)..Len(db'.tasks[t].probes) :
                    /\ db'.tasks[t].probes[k].path \notin DOMAIN db.pathExistsCache
                    /\ db'.tasks[t].probes[k].path \notin DOMAIN db'.pathExistsCache
             /\ \A j \in AnsweredAtOnce(t) :
                    db'.tasks[t].tried[j].path \in DOMAIN db'.pathExistsCache
                        \/ db'.tasks[t].tried[j].path = <<>>
                        \/ (db'.checked /\ ~db'.assetsDetected)
             /\ db'.tasks[t].fn = "getLetterVariants" =>
                    IF Cardinality(AnsweredTrue(t)) + AwaitedFound(t) = 0
                    THEN \/ db'.tasks[t].found = TaskBefore(t).found
                         \/ /\ TaskBefore(t).found = <<>>
                            /\ Len(db'.tasks[t].found) = 1
                            /\ IsSvgDataUrl(db'.tasks[t].found[1])
                    ELSE /\ Len(db'.tasks[t].found) =
                                Len(TaskBefore(t).found)
                                    + Cardinality(AnsweredTrue(t)) + AwaitedFound(t)
                         /\ \A j \in AnsweredTrue(t) :
                                \E i \in (Len(TaskBefore(t).found) + 1)
                                             ..Len(db'.tasks[t].found) :
                                    db'.tasks[t].found[i] =
                                        PathUrl(db'.tasks[t].tried[j].path)]_vars

\* C36 witness: getLetterVariants has asked pathExists twice for one path;
\* the first call started a probe that found nothing, the second was answered
\* from the record and started none.
C36_Witness ==
    \E t \in DbTasks :
        /\ db.tasks[t].fn = "getLetterVariants"
        /\ \E i, j \in 1..Len(db.tasks[t].tried) :
               /\ i < j
               /\ db.tasks[t].tried[i].path = db.tasks[t].tried[j].path
               /\ db.tasks[t].tried[i].path \in DOMAIN db.pathExistsCache
               /\ ~db.pathExistsCache[db.tasks[t].tried[i].path]
               /\ Cardinality({k \in 1..Len(db.tasks[t].probes) :
                      db.tasks[t].probes[k].path = db.tasks[t].tried[i].path}) = 1
               /\ (j < Len(db.tasks[t].tried) \/ db.tasks[t].await = 0)


\* C37: the value recorded in pathExistsCache for a path is the value the
\* pathExists call that probed it returned to its caller, also after a load
\* or error event that comes when the timer of the probe has fired.
C37_RecordIsAnswer ==
    \A t \in DbTasks : \A k \in 1..Len(db.tasks[t].probes) :
        db.tasks[t].probes[k].promise = "fulfilled" =>
            /\ db.tasks[t].probes[k].path \in DOMAIN db.pathExistsCache
            /\ db.pathExistsCache[db.tasks[t].probes[k].path]
                   = db.tasks[t].probes[k].value


\* the start-up detection is over and has found no asset
NothingDetected == db.checked /\ ~db.assetsDetected

\* C38: once the start-up detection is over and has found no asset, no step
\* starts a probe, a pathExists call for a path that is not recorded is
\* answered false (the caller's list of found paths gets nothing from it),
\* and a getLetterVariants call with skipFallback = false returns a list of
\* exactly one SVG data URL.
C38_NoProbeWhenNothingDetected ==
    [][NothingDetected =>
          /\ db'.checked /\ ~db'.assetsDetected
          /\ \A t \in 1..Len(db'.tasks) :
                 /\ Len(db'.tasks[t].probes) = Len(TaskBefore(t).probes)
                 /\ \A j \in AnsweredAtOnce(t) :
                        db'.tasks[t].tried[j].path \notin DOMAIN db.pathExistsCache
                            => PathUrl(db'.tasks[t].tried[j].path)
                                   \notin {db'.tasks[t].found[i] :
                                              i \in (Len(TaskBefore(t).found) + 1)
                                                        ..Len(db'.tasks[t].found)}
          /\ \A t \in (Len(db.tasks) + 1)..Len(db'.tasks) :
                 ~db'.tasks[t].args.skipFallback =>
                     /\ db'.tasks[t].state = "returned"
                     /\ Len(db'.tasks[t].result) = 1
                     /\ IsSvgDataUrl(db'.tasks[t].result[1])]_vars


-----------------------------------------------------------------------------
(* utils.js: debounce, as app.js uses it for the input event                *)

\* the variables DebounceSpec, TextSpec, TypographySpec and CanvasSpec leave
\* alone
coreVars == <<amVars, pathVars, letterPathVars, probes, dbVars, builds, utilVars>>

CoreIdle ==
    /\ AssetManagerIdle
    /\ PathIdle
    /\ LetterPathIdle
    /\ CheckIdle
    /\ DbIdle
    /\ UtilIdle
    /\ builds = <<>>

\* debounce(updateCanvas, 500): the wait in milliseconds
wait == 500

\* the clock of the model advances by TickMs milliseconds, MaxTicks times; the
\* debounced function is called at most MaxDebounced times
TickMs == 250
MaxTicks == 5
MaxDebounced == 3

\* the arguments of the calls of the debounced function
DebArgs == {"e1", "e2"}

\* performance.now() in the model
now == deb.ticks * TickMs

\* debounce(fn, wait, immediate): the closure, with timeout = null.  timeout
\* is 0 for null and else the number of the call that set the timer; due and
\* args are the time and the arguments of that timer.  calls and invocations
\* record the calls of the returned function and of fn.
debounce(immediate) ==
    [immediate |-> immediate, timeout |-> 0, due |-> 0, args |-> "",
     ticks |-> 0, calls |-> <<>>, invocations |-> <<>>]

\* fn.apply(this, args), by the call ("call") or by the timer ("timer")
Invoke(d, args, by) ==
    [d EXCEPT !.invocations =
                  Append(@, [t |-> d.ticks * TickMs, args |-> args, by |-> by,
                             after |-> Len(d.calls)])]

\* the function debounce returns, called with args: lines 28-35
debounced(d, args) ==
    LET callNow == d.immediate /\ d.timeout = 0
        called == [d EXCEPT
                      !.calls = Append(@, [t |-> d.ticks * TickMs, args |-> args,
                                           pending |-> d.timeout # 0]),
                      !.timeout = Len(d.calls) + 1,
                      !.due = d.ticks * TickMs + wait,
                      !.args = args]
    IN  IF callNow THEN Invoke(called, args, "call") ELSE called

\* as timerCallback, but fn is called whatever immediate is
timerCallback_AlwaysFn(d) ==
    Invoke([d EXCEPT !.timeout = 0], d.args, "timer")

\* the callback of the timer: lines 31-34
timerCallback(d) ==
    LET cleared == [d EXCEPT !.timeout = 0]
    IN  IF ~d.immediate THEN Invoke(cleared, d.args, "timer") ELSE cleared

DebounceInit ==
    /\ CoreIdle
    /\ sel = <<>>
    /\ tm = <<>>
    /\ page = <<>>
    /\ \E immediate \in BOOLEAN : deb = debounce(immediate)

\* an event calls the debounced function
DebouncedCall(args) ==
    /\ Len(deb.calls) < MaxDebounced
    /\ deb' = debounced(deb, args)
    /\ UNCHANGED <<coreVars, sel, tm, page>>

\* the timer's callback runs: its time has come, and no clearTimeout has
\* cancelled it.  The browser runs it at its time or later.
DebounceTimerFires ==
    /\ deb.timeout # 0
    /\ now >= deb.due
    /\ deb' = timerCallback(deb)
    /\ UNCHANGED <<coreVars, sel, tm, page>>

\* time passes
Tick ==
    /\ deb.ticks < MaxTicks
    /\ deb' = [deb EXCEPT !.ticks = @ + 1]
    /\ UNCHANGED <<coreVars, sel, tm, page>>

DebounceNext ==
    \/ \E args \in DebArgs : DebouncedCall(args)
    \/ DebounceTimerFires
    \/ Tick

DebounceSpec == DebounceInit /\ [][DebounceNext]_vars

\* the calls of the debounced function that end a burst: the next call comes
\* no less than wait after them
BurstEnds == {i \in 1..(Len(deb.calls) - 1) : deb.calls[i + 1].t - deb.calls[i].t >= wait}

\* the invocations of fn made after call i and before call i + 1
InvokedAfter(i) == {k \in 1..Len(deb.invocations) : deb.invocations[k].after = i}

\* C33 as stated: with immediate = false, fn has been invoked exactly once
\* for every burst that a later burst has followed.
C33_OncePerBurst ==
    ~deb.immediate => \A i \in BurstEnds : Cardinality(InvokedAfter(i)) = 1

\* C33: with immediate = false fn is invoked by the timer callback only, no
\* earlier than wait after the latest call, with the arguments of that call,
\* at most once for it, and exactly once as soon as no timer is pending; a
\* call made while the timer is pending, be it less than wait after the call
\* before or later because the callback is late, cancels the timer without
\* an invocation.  With immediate = true fn is invoked by the calls made
\* while no timer is pending, at once and with their arguments, and never by
\* the timer.
C33_DebounceTrailingOrLeading ==
    /\ \A k \in 1..Len(deb.invocations) :
           LET v == deb.invocations[k]
           IN  /\ v.after \in 1..Len(deb.calls)
               /\ v.args = deb.calls[v.after].args
               /\ v.by = (IF deb.immediate THEN "call" ELSE "timer")
               /\ deb.immediate => v.t = deb.calls[v.after].t
               /\ ~deb.immediate => v.t >= deb.calls[v.after].t + wait
    /\ \A i \in 1..Len(deb.calls) :
           /\ Cardinality(InvokedAfter(i)) <= 1
           /\ deb.immediate => (InvokedAfter(i) # {} <=> ~deb.calls[i].pending)
           /\ ~deb.immediate =>
                  /\ (i < Len(deb.calls) /\ deb.calls[i + 1].pending)
                         => InvokedAfter(i) = {}
                  /\ (i < Len(deb.calls) /\ ~deb.calls[i + 1].pending)
                         => InvokedAfter(i) # {}
                  /\ (i = Len(deb.calls) /\ deb.timeout = 0) => InvokedAfter(i) # {}
                  /\ (i = Len(deb.calls) /\ deb.timeout # 0) => InvokedAfter(i) = {}
    /\ deb.timeout # 0 => deb.timeout = Len(deb.calls) /\ deb.args = deb.calls[deb.timeout].args
    /\ (deb.calls # <<>> /\ deb.immediate) => InvokedAfter(1) # {}

\* C33 witness: a burst of two calls less than wait apart has been followed
\* by one invocation of fn, wait or more after its second call.
C33_Witness ==
    /\ ~deb.immediate
    /\ Len(deb.calls) = 2
    /\ deb.calls[2].t - deb.calls[1].t < wait
    /\ deb.calls[2].t > deb.calls[1].t
    /\ deb.calls[1].args # deb.calls[2].args
    /\ Len(deb.invocations) = 1
    /\ deb.invocations[1].args = deb.calls[2].args


-----------------------------------------------------------------------------
(* LetterSelector.selectLettersForText                                      *)

\* the longest text, in UTF-16 code units
MaxTextLen == 2

\* a text is a sequence of code units: a letter, a space, a high and a low
\* surrogate
TextUnits == {"a", " ", LoneSurrogate, LowSurrogate}

RECURSIVE TextsOfLen(_)
TextsOfLen(n) ==
    IF n = 0 THEN {<<>>}
    ELSE {Append(t, u) : t \in TextsOfLen(n - 1), u \in TextUnits}

\* the calls of this model: any text in the style 'sans', a text of one code
\* unit in the style 'random'
TextCalls ==
    {c \in [text : UNION {TextsOfLen(n) : n \in 0..MaxTextLen},
            style : {"sans", "random"}] :
        c.style = "random" => Len(c.text) = 1}

\* Array.from(text): the code points of the text; a high surrogate followed
\* by a low one is one code point, any other surrogate stays alone
RECURSIVE ArrayFrom(_)
ArrayFrom(text) ==
    IF text = <<>> THEN <<>>
    ELSE IF Len(text) >= 2 /\ text[1] = LoneSurrogate /\ text[2] = LowSurrogate
    THEN <<Astral>> \o ArrayFrom(SubSeq(text, 3, Len(text)))
    ELSE <<text[1]>> \o ArrayFrom(Tail(text))

SpaceObj == [type |-> "space", value |-> " "]

\* as taskFor, but a space is built like any other character
taskFor_SpaceAsLetter(char, style, city, drawn, variant) ==
    attempt(Build(char, style, city), drawn, variant)

\* the callback of tasks.map: the promise for one character, either resolved
\* with the space object or the call of _buildLetterObj up to its await
taskFor(char, style, city, drawn, variant) ==
    IF char = " "
    THEN [Build(char, style, city) EXCEPT !.state = "returned", !.result = SpaceObj]
    ELSE attempt(Build(char, style, city), drawn, variant)

\* as PromiseAll, but the values come in the order in which the promises
\* were fulfilled
PromiseAll_CompletionOrder(tasks, settled) ==
    [k \in 1..Len(tasks) |-> tasks[settled[k]].result]

\* the value Promise.all(tasks) is fulfilled with, settled being the order in
\* which the promises were fulfilled
PromiseAll(tasks, settled) ==
    [k \in 1..Len(tasks) |-> tasks[k].result]

\* the requests of the tasks that await a get, by position
RequestsOf(tasks) ==
    {[pos |-> i, req |-> tasks[i].req, gets |-> tasks[i].gets] :
        i \in {j \in 1..Len(tasks) : tasks[j].state = "awaiting"}}

\* `await Promise.all(tasks)` when a promise has been fulfilled: the call
\* returns the results once all are
afterSettle(S) ==
    IF \A i \in 1..Len(S.tasks) : S.tasks[i].state = "returned"
    THEN [S EXCEPT !.state = "returned",
                   !.results = PromiseAll(S.tasks, S.settled)]
    ELSE S

\* selectLettersForText(text, style, city) up to its await, draws giving the
\* random style and variant of each position
selectLettersForText(text, style, city, draws) ==
    LET chars == ArrayFrom(text)
        tasks == [i \in 1..Len(chars) |->
                     taskFor(chars[i], style, city, draws[i][1], draws[i][2])]
    IN  afterSettle(
            [text |-> text, style |-> style, city |-> city, tasks |-> tasks,
             requests |-> RequestsOf(tasks),
             settled |-> SelectSeq([i \in 1..Len(chars) |-> i],
                                   LAMBDA i : tasks[i].state = "returned"),
             state |-> "awaiting", results |-> <<>>])

\* the draws of this model: the primary styles, the first variant
TextDraws == {_random(primaryStyles, k) : k \in 0..(Len(primaryStyles) - 1)}
                 \X {_random(variants, 0)}

TextInit ==
    /\ CoreIdle
    /\ sel = <<>>
    /\ tm = <<>>
    /\ deb = <<>>
    /\ page = <<>>

\* the page calls selectLettersForText
SelectLettersForText(c, draws) ==
    /\ sel = <<>>
    /\ sel' = <<selectLettersForText(c.text, c.style, "NYC", draws)>>
    /\ UNCHANGED <<coreVars, tm, deb, page>>

\* the get that the task of position i awaits is answered: _buildLetterObj
\* returns or makes its next get; at the last return Promise.all is fulfilled
TextGetSettles(i, answer, draw) ==
    /\ sel[1].tasks[i].state = "awaiting"
    /\ LET B == afterGet(sel[1].tasks[i], answer)
           T == IF B.state = "running" THEN attempt(B, draw[1], draw[2]) ELSE B
           tasks == [sel[1].tasks EXCEPT ![i] = T]
       IN  sel' = <<afterSettle(
                       [sel[1] EXCEPT
                           !.tasks = tasks,
                           !.requests = @ \cup RequestsOf(tasks),
                           !.settled = IF T.state = "returned"
                                       THEN Append(@, i) ELSE @])>>
    /\ UNCHANGED <<coreVars, tm, deb, page>>

SomeSelectLettersForText ==
    \E c \in TextCalls, draws \in [1..MaxTextLen -> TextDraws] :
        SelectLettersForText(c, draws)

SomeTextGetSettles ==
    \E i \in (IF sel = <<>> THEN {}
              ELSE {j \in 1..Len(sel[1].tasks) : sel[1].tasks[j].state = "awaiting"}) :
        \E answer \in GetAnswers(sel[1].tasks[i].req), draw \in TextDraws :
            TextGetSettles(i, answer, draw)

TextNext ==
    \/ SomeSelectLettersForText
    \/ SomeTextGetSettles

TextSpec == TextInit /\ [][TextNext]_vars


\* the positions of a text at which a code point starts: all but the low
\* surrogate that follows a high one
Starts(text) ==
    {i \in 1..Len(text) :
        ~(i > 1 /\ text[i] = LowSurrogate /\ text[i - 1] = LoneSurrogate)}

\* the code point that starts at position i
CodePointAt(text, i) ==
    IF /\ text[i] = LoneSurrogate
       /\ i < Len(text)
       /\ text[i + 1] = LowSurrogate
    THEN Astral ELSE text[i]

\* the position at which the k-th code point of the text starts
StartOf(text, k) ==
    CHOOSE i \in Starts(text) : Cardinality({j \in Starts(text) : j <= i}) = k

\* C31: selectLettersForText returns one entry for each code point of the
\* text, in the order of the text, whatever the order in which the gets of
\* its characters were answered; the entry of a space is the space object
\* and no get is ever made for it, the entry of any other code point is a
\* letter object whose value is the code point.
C31_OneEntryPerCodePoint ==
    \A s \in 1..Len(sel) :
        LET S == sel[s]
            n == Cardinality(Starts(S.text))
        IN  /\ Len(S.tasks) = n
            /\ \A r \in S.requests :
                   CodePointAt(S.text, StartOf(S.text, r.pos)) # " "
            /\ S.state = "returned" =>
                   /\ Len(S.results) = n
                   /\ \A k \in 1..n :
                          LET cp == CodePointAt(S.text, StartOf(S.text, k))
                          IN  IF cp = " " THEN S.results[k] = SpaceObj
                              ELSE /\ S.results[k].type = "letter"
                                   /\ S.results[k].value = cp

\* C31 witness: a text of two characters has been returned after the get of
\* its second character was answered before the get of its first.
C31_Witness ==
    /\ sel # <<>>
    /\ sel[1].state = "returned"
    /\ sel[1].settled = <<2, 1>>
    /\ sel[1].results[1].value # sel[1].results[2].value


-----------------------------------------------------------------------------
(* TypographyManager: initialize, _prewarmCache, getLettersFromText         *)

MaxTmCalls == 2       \* calls of initialize and getLettersFromText
MaxPrewarmSettled == 1  \* pre-warm gets whose promise is seen to settle

\* const prewarmLetters, styles, cases of _prewarmCache
prewarmLetters == <<"A", "E", "T", "O">>
prewarmStyles == <<"sans", "serif">>
prewarmCases == <<"upper", "lower">>

\* the texts and case options getLettersFromText is called with in this
\* model: a valid string
TmTexts == {<<"a", " ">>}
TmCaseOptions == {"mixed", "upper"}

\* _prewarmCache(): the gets of the three nested loops, in their order, each
\* with its .catch handler; none is awaited
_prewarmCache ==
    [n \in 1..(Len(prewarmLetters) * Len(prewarmStyles) * Len(prewarmCases)) |->
        [req |-> Request(
                    prewarmLetters[((n - 1) \div (Len(prewarmStyles) * Len(prewarmCases))) + 1],
                    prewarmStyles[(((n - 1) \div Len(prewarmCases)) % Len(prewarmStyles)) + 1],
                    prewarmCases[((n - 1) % Len(prewarmCases)) + 1],
                    "NYC", "01"),
         promise |-> "pending", catch |-> TRUE]]

TmCall(fn, pc, state, value) == [fn |-> fn, pc |-> pc, state |-> state, value |-> value]

\* as initialize, but without the test of this.initialized
initialize_NoGuard(T, by) ==
    [T EXCEPT !.prewarms = @ \o _prewarmCache,
              !.initialized = TRUE,
              !.calls = Append(@, TmCall("initialize", by, "fulfilled", TRUE))]

\* initialize(): the whole call, which has no await.  by is "page" for a call
\* of the page and "getLettersFromText" for the call of line 520.
initialize(T, by) ==
    IF T.initialized
    THEN [T EXCEPT !.calls = Append(@, TmCall("initialize", by, "fulfilled", TRUE))]
    ELSE [T EXCEPT !.prewarms = @ \o _prewarmCache,
                   !.initialized = TRUE,
                   !.calls = Append(@, TmCall("initialize", by, "fulfilled", TRUE))]

\* lines 523-541: the text after the case conversion
processedText(text, caseOption) ==
    IF caseOption = "upper" THEN [i \in 1..Len(text) |-> toUpperCase(text[i])]
    ELSE text

\* getLettersFromText(text, {caseOption}) up to its first await: of
\* initialize() when the manager is not initialized, else of
\* selectLettersForText
getLettersFromText(T, text, caseOption) ==
    LET call == TmCall("getLettersFromText",
                       IF T.initialized THEN "awaitSelect" ELSE "awaitInitialize",
                       "pending", processedText(text, caseOption))
        inited == IF T.initialized THEN T ELSE initialize(T, "getLettersFromText")
    IN  [inited EXCEPT !.calls = Append(@, call)]

TypographyInit ==
    /\ CoreIdle
    /\ sel = <<>>
    /\ deb = <<>>
    /\ page = <<>>
    /\ tm = NewTypographyManager

\* the calls the page has made: all but the calls of initialize made by
\* getLettersFromText
PageCalls ==
    {c \in 1..Len(tm.calls) :
        ~(tm.calls[c].fn = "initialize" /\ tm.calls[c].pc = "getLettersFromText")}

\* the page calls initialize()
CallInitialize ==
    /\ Cardinality(PageCalls) < MaxTmCalls
    /\ tm' = initialize(tm, "page")
    /\ UNCHANGED <<coreVars, sel, deb, page>>

\* the page calls getLettersFromText
CallGetLettersFromText(text, caseOption) ==
    /\ Cardinality(PageCalls) < MaxTmCalls
    /\ tm' = getLettersFromText(tm, text, caseOption)
    /\ UNCHANGED <<coreVars, sel, deb, page>>

\* call c of getLettersFromText goes on after `await this.initialize()`, up
\* to its await of selectLettersForText
AfterInitialize(c) ==
    /\ tm.calls[c].pc = "awaitInitialize"
    /\ tm' = [tm EXCEPT !.calls[c].pc = "awaitSelect"]
    /\ UNCHANGED <<coreVars, sel, deb, page>>

\* selectLettersForText answers call c with the letters of its text, and the
\* call returns them
LettersReturned(c) ==
    /\ tm.calls[c].pc = "awaitSelect"
    /\ tm' = [tm EXCEPT !.calls[c].pc = "done", !.calls[c].state = "fulfilled"]
    /\ UNCHANGED <<coreVars, sel, deb, page>>

\* the promise of pre-warm get n settles.  In this repository a get for a
\* letter is always fulfilled; the rejection is what the .catch handler of
\* line 507 is written for.
PrewarmSettles(n, outcome) ==
    /\ tm.prewarms[n].promise = "pending"
    /\ Cardinality({k \in 1..Len(tm.prewarms) : tm.prewarms[k].promise # "pending"})
           < MaxPrewarmSettled
    /\ tm' = [tm EXCEPT !.prewarms[n].promise = outcome]
    /\ UNCHANGED <<coreVars, sel, deb, page>>

TypographyNext ==
    \/ CallInitialize
    \/ \E text \in TmTexts, caseOption \in TmCaseOptions :
           CallGetLettersFromText(text, caseOption)
    \/ \E c \in 1..Len(tm.calls) : AfterInitialize(c)
    \/ \E c \in 1..Len(tm.calls) : LettersReturned(c)
    \/ \E n \in 1..Len(tm.prewarms), outcome \in {"fulfilled", "rejected"} :
           PrewarmSettles(n, outcome)

TypographySpec == TypographyInit /\ [][TypographyNext]_vars

\* the sixteen requests of the pre-warm
PrewarmRequests ==
    {Request(l, s, c, "NYC", "01") :
        l \in {"A", "E", "T", "O"}, s \in {"sans", "serif"}, c \in {"upper", "lower"}}

\* C32: whatever calls of initialize and getLettersFromText have been made,
\* and however they overlap, the sixteen gets of the pre-warm have been made
\* once each as soon as one call has been made, and never again; each has its
\* rejection handled, every call of initialize has returned true and no call
\* has been rejected.
C32_PrewarmOnce ==
    /\ tm.calls = <<>> => (tm.prewarms = <<>> /\ ~tm.initialized)
    /\ tm.calls # <<>> =>
           /\ tm.initialized
           /\ Len(tm.prewarms) = Cardinality(PrewarmRequests)
           /\ {tm.prewarms[n].req : n \in 1..Len(tm.prewarms)} = PrewarmRequests
    /\ \A n \in 1..Len(tm.prewarms) : tm.prewarms[n].catch
    /\ \A c \in 1..Len(tm.calls) :
           /\ tm.calls[c].state # "rejected"
           /\ tm.calls[c].fn = "initialize" =>
                  (tm.calls[c].state = "fulfilled" /\ tm.calls[c].value = TRUE)

\* C32 witness: two calls of getLettersFromText overlap, the first still
\* waits for initialize, and a pre-warm get has been rejected.
C32_Witness ==
    /\ \E c, d \in 1..Len(tm.calls) :
           /\ c < d
           /\ tm.calls[c].fn = "getLettersFromText"
           /\ tm.calls[d].fn = "getLettersFromText"
           /\ tm.calls[c].pc = "awaitInitialize"
    /\ \E n \in 1..Len(tm.prewarms) : tm.prewarms[n].promise = "rejected"


-----------------------------------------------------------------------------
(* app.js: updateCanvas, with VisualRenderer.renderLetters                  *)

MaxRuns == 2      \* runs of updateCanvas
MaxImages == 1    \* letters of a run that have an image to load

\* the texts of the input field, and what starts a run: the debounced input
\* event, the generate button, the font-size toggle
CanvasTexts == {"ab", "abc"}
RunStarters == {"input", "generate", "fontSize"}

LoadingIndicator == [type |-> "loading", text |-> "Generating typography..."]
Message(type, text) == [type |-> type, text |-> text]

\* showLoading(), hideLoading() and showErrorMessage(message) of app.js, the
\* last with showMessage of utils.js
showLoading(P) ==
    [P EXCEPT !.outputContainer = LoadingIndicator, !.generateBtn = "disabled"]

hideLoading(P) ==
    [P EXCEPT !.outputContainer = NoContent, !.generateBtn = "enabled"]

showErrorMessage(P, message) ==
    [P EXCEPT !.outputContainer = Message("error", message)]

\* a run of updateCanvas: the text it read, what started it, where it is
\* (pc), how it failed, and the state of the _updateLetters call it made
\* (render, with the number of images that call still loads)
CanvasRun(text, by, pc, failed) ==
    [text |-> text, by |-> by, pc |-> pc, failed |-> failed, render |-> "none",
     images |-> 0]

\* the letter array of run r
LettersOf(P, r) == [run |-> r, text |-> P.runs[r].text]

\* updateCanvas() up to `await typographyManager.getLettersFromText(...)`;
\* fatal: a statement before it throws, and the outer catch and the finally
\* block run
updateCanvas(P, text, by, fatal) ==
    LET loading == showLoading(P)
    IN  IF fatal
        THEN hideLoading(
                 showErrorMessage(
                     [loading EXCEPT
                         !.runs = Append(@, CanvasRun(text, by, "finished", "fatal"))],
                     "A fatal error occurred while updating the canvas."))
        ELSE [loading EXCEPT
                 !.runs = Append(@, CanvasRun(text, by, "awaitLetters", "no"))]

\* renderer.renderLetters(letterArray) for run r: _updateLetters up to its
\* first await of an image, or to its end when no letter has an image
renderLetters(P, r, images) ==
    IF images = 0
    THEN [P EXCEPT !.letters = LettersOf(P, r), !.runs[r].render = "shown"]
    ELSE [P EXCEPT !.runs[r].render = "loading", !.runs[r].images = images]

\* updateCanvas from the answer of getLettersFromText to its end: the try
\* block (render, enable the export buttons) or the inner catch block, then
\* the finally block
afterLetters(P, r, rejected, images) ==
    IF rejected
    THEN hideLoading(
             showErrorMessage(
                 [P EXCEPT !.runs[r].pc = "finished", !.runs[r].failed = "letters"],
                 "Failed to generate typography"))
    ELSE hideLoading(
             [renderLetters(P, r, images) EXCEPT
                 !.exportBtn = "enabled", !.runs[r].pc = "finished"])

\* _updateLetters of run r after the answer of p.loadImage: the next image,
\* or `letters = loaded; p.redraw()`
afterImage(P, r) ==
    IF P.runs[r].images > 1
    THEN [P EXCEPT !.runs[r].images = @ - 1]
    ELSE [P EXCEPT !.runs[r].images = 0, !.runs[r].render = "shown",
                   !.letters = LettersOf(P, r)]

CanvasInit ==
    /\ CoreIdle
    /\ sel = <<>>
    /\ tm = <<>>
    /\ deb = <<>>
    /\ page = NewPage

\* an event starts a run of updateCanvas; the generate button only when it
\* is enabled.  A failure before the await comes from the environment.
UpdateCanvas(text, by, fatal) ==
    /\ Len(page.runs) < MaxRuns
    /\ by = "generate" => page.generateBtn = "enabled"
    /\ page' = updateCanvas(page, text, by, fatal)
    /\ UNCHANGED <<coreVars, sel, tm, deb>>

\* getLettersFromText answers run r.  In this repository the call is not
\* seen to reject; the rejection is what the inner catch block is written for.
LettersSettle(r, rejected, images) ==
    /\ page.runs[r].pc = "awaitLetters"
    /\ page' = afterLetters(page, r, rejected, images)
    /\ UNCHANGED <<coreVars, sel, tm, deb>>

\* p.loadImage answers the _updateLetters call of run r
ImageSettles(r) ==
    /\ page.runs[r].render = "loading"
    /\ page' = afterImage(page, r)
    /\ UNCHANGED <<coreVars, sel, tm, deb>>

CanvasNext ==
    \/ \E text \in CanvasTexts, by \in RunStarters, fatal \in BOOLEAN :
           UpdateCanvas(text, by, fatal)
    \/ \E r \in 1..Len(page.runs), rejected \in BOOLEAN, images \in 0..MaxImages :
           LettersSettle(r, rejected, images)
    \/ \E r \in 1..Len(page.runs) : ImageSettles(r)

CanvasSpec == CanvasInit /\ [][CanvasNext]_vars

\* C34: when all runs of updateCanvas have rendered their letters, the
\* canvas shows the letters of the text that the run started last has read.
C34_LastStartedRunShown ==
    (/\ page.runs # <<>>
     /\ \A r \in 1..Len(page.runs) :
            /\ page.runs[r].pc = "finished"
            /\ page.runs[r].failed = "no"
            /\ page.runs[r].render = "shown")
        => page.letters.text = page.runs[Len(page.runs)].text

\* C35: at the end of a run of updateCanvas in which the letter generation
\* failed, the output container holds the error message and the generate
\* button is enabled.
C35_ErrorMessageStays ==
    [][\A r \in 1..Len(page.runs) :
           (/\ page.runs[r].pc = "awaitLetters"
            /\ page'.runs[r].pc = "finished"
            /\ page'.runs[r].failed = "letters")
               => /\ page'.outputContainer = Message("error", "Failed to generate typography")
                  /\ page'.generateBtn = "enabled"]_vars

=============================================================================
